---- MODULE Spec2Model ----
(***************************************************************************)
(* Model of the assessment aggregation core of the SDG scorecard front     *)
(* end: the row normalizer (normalizeRow), the cell aggregator (makeCells),*)
(* the page builder (sanitizeQuestions, pickFourDimsFor, buildPages), the  *)
(* label helpers (canonicalSector, canonicalDim, sectorLabelFromKey) and   *)
(* the visualization component (summary and useGridRoulette layout).       *)
(*                                                                         *)
(* JavaScript values are tagged records [t, v, s]:                         *)
(*   t = "null" | "undef" | "nan" | "num" | "str"                          *)
(*   v = the number in tenths (37 is 3.7) when t = "num"                   *)
(*   s = the characters of the string when t = "str"                       *)
(* Strings are sequences of one-character strings so that trim,            *)
(* toLowerCase, startsWith, includes and the digit match are computed.     *)
(***************************************************************************)
EXTENDS Integers, Sequences, FiniteSets

\* ------------------------------------------------------------------------
\* Bounds of the model
\* ------------------------------------------------------------------------
MaxExtra == 2

MaxVizExtra == 2

\* the further rows of a result in the render specification
MaxRenderExtra == 1

\* the further rows of a row list given to makeCells directly
MaxEntryExtra == 1

\* the further rows of a questionnaire template
MaxFormExtra == 1

\* the questions whose score is changed from the initial one in a session
MaxRescored == 1

\* the upload requests of a session
MaxUploads == 2

\* ------------------------------------------------------------------------
\* JavaScript values
\* ------------------------------------------------------------------------
JNull == [t |-> "null", v |-> 0, s |-> <<>>]

JUndef == [t |-> "undef", v |-> 0, s |-> <<>>]

JNaN == [t |-> "nan", v |-> 0, s |-> <<>>]

\* a number given in tenths
JTenths(n) == [t |-> "num", v |-> n, s |-> <<>>]

\* an integer number
JNum(n) == [t |-> "num", v |-> 10 * n, s |-> <<>>]

JStr(cs) == [t |-> "str", v |-> 0, s |-> cs]

\* x == null (loose equality: null or undefined)
IsNullish(x) == x.t \in {"null", "undef"}

\* a ?? b
Coalesce(a, b) == IF IsNullish(a) THEN b ELSE a

\* a truthiness test in place of Number.isFinite: 0 counts as missing
IsTruthyNumber(x) == x.t = "num" /\ x.v # 0

\* Number.isFinite(x): only numbers, and neither NaN nor an infinity
IsFinite(x) == x.t = "num"

\* !x for the values of the model
Falsy(x) ==
    \/ x.t \in {"null", "undef", "nan"}
    \/ x.t = "num" /\ x.v = 0
    \/ x.t = "str" /\ x.s = <<>>

\* ------------------------------------------------------------------------
\* Strings
\* ------------------------------------------------------------------------
UpperChars == <<"A","B","C","D","E","F","G","H","I","J","K","L","M",
                "N","O","P","Q","R","S","T","U","V","W","X","Y","Z">>

LowerChars == <<"a","b","c","d","e","f","g","h","i","j","k","l","m",
                "n","o","p","q","r","s","t","u","v","w","x","y","z">>

DigitChars == <<"0","1","2","3","4","5","6","7","8","9">>

IsDigit(c) == \E i \in 1..10 : DigitChars[i] = c

DigitVal(c) == (CHOOSE i \in 1..10 : DigitChars[i] = c) - 1

IsSpace(c) == c = " "

\* the lower-case form of each upper-case letter
LowerOf == [c \in {UpperChars[i] : i \in 1..26} |->
               LowerChars[CHOOSE i \in 1..26 : UpperChars[i] = c]]

LowerChar(c) == IF c \in DOMAIN LowerOf THEN LowerOf[c] ELSE c

\* a lower-casing that leaves every character as it is
toLowerCaseKept(cs) == cs

\* String.prototype.toLowerCase
toLowerCase(cs) == [i \in 1..Len(cs) |-> LowerChar(cs[i])]

\* String.prototype.trim
trim(cs) ==
    IF \A i \in 1..Len(cs) : IsSpace(cs[i]) THEN <<>>
    ELSE IF ~IsSpace(cs[1]) /\ ~IsSpace(cs[Len(cs)]) THEN cs
    ELSE LET a == CHOOSE i \in 1..Len(cs) :
                     /\ ~IsSpace(cs[i])
                     /\ \A j \in 1..(i-1) : IsSpace(cs[j])
             b == CHOOSE i \in 1..Len(cs) :
                     /\ ~IsSpace(cs[i])
                     /\ \A j \in (i+1)..Len(cs) : IsSpace(cs[j])
         IN SubSeq(cs, a, b)

\* String.prototype.startsWith
startsWith(cs, p) == Len(cs) >= Len(p) /\ SubSeq(cs, 1, Len(p)) = p

\* String.prototype.includes
includes(cs, p) ==
    \E i \in 1..(Len(cs) - Len(p) + 1) : SubSeq(cs, i, i + Len(p) - 1) = p

\* Array.prototype.reverse
Reverse(xs) == [i \in 1..Len(xs) |-> xs[Len(xs) + 1 - i]]

\* value of a run of decimal digits
RECURSIVE DigitsValue(_)
DigitsValue(ds) ==
    IF ds = <<>> THEN 0
    ELSE 10 * DigitsValue(SubSeq(ds, 1, Len(ds) - 1)) + DigitVal(ds[Len(ds)])

\* decimal digits of a natural number
RECURSIVE NatDigits(_)
NatDigits(n) ==
    IF n < 10 THEN <<DigitChars[n + 1]>>
    ELSE NatDigits(n \div 10) \o <<DigitChars[(n % 10) + 1]>>

\* ------------------------------------------------------------------------
\* JavaScript conversions
\* ------------------------------------------------------------------------
Abs(n) == IF n < 0 THEN -n ELSE n

\* String(x)
StringOf(x) ==
    CASE x.t = "str"   -> x.s
      [] x.t = "null"  -> <<"n","u","l","l">>
      [] x.t = "undef" -> <<"u","n","d","e","f","i","n","e","d">>
      [] x.t = "nan"   -> <<"N","a","N">>
      [] x.t = "num"   ->
            (IF x.v < 0 THEN <<"-">> ELSE <<>>)
            \o NatDigits(Abs(x.v) \div 10)
            \o (IF Abs(x.v) % 10 = 0 THEN <<>>
                ELSE <<".", DigitChars[(Abs(x.v) % 10) + 1]>>)

\* StringToNumber on an unsigned literal: digits, optionally a point and at
\* most one fraction digit (the numbers of the model are tenths; the pools
\* hold no longer fraction). Anything else is NaN.
UnsignedNumberOf(cs) ==
    LET n == Len(cs)
        dot == IF \E i \in 1..n : cs[i] = "."
               THEN CHOOSE i \in 1..n : cs[i] = "." /\ \A j \in 1..(i-1) : cs[j] # "."
               ELSE n + 1
        ip == SubSeq(cs, 1, dot - 1)
        fp == SubSeq(cs, dot + 1, n)
    IN IF /\ n > 0
          /\ \A i \in 1..Len(ip) : IsDigit(ip[i])
          /\ \A i \in 1..Len(fp) : IsDigit(fp[i])
          /\ Len(fp) <= 1
          /\ Len(ip) + Len(fp) > 0
       THEN JTenths(10 * DigitsValue(ip) + DigitsValue(fp))
       ELSE JNaN

\* Number(x)
NumberOf(x) ==
    CASE x.t = "num"   -> x
      [] x.t = "nan"   -> JNaN
      [] x.t = "null"  -> JNum(0)
      [] x.t = "undef" -> JNaN
      [] x.t = "str"   ->
            LET cs == trim(x.s)
            IN IF cs = <<>> THEN JNum(0)
               ELSE IF cs[1] = "-"
                    THEN LET u == UnsignedNumberOf(Tail(cs))
                         IN IF u.t = "num" THEN JTenths(-u.v) ELSE JNaN
               ELSE IF cs[1] = "+" THEN UnsignedNumberOf(Tail(cs))
               ELSE UnsignedNumberOf(cs)

\* s.match(/\d+/)?.[0]: the first run of digits, undefined when there is none
FirstDigitRun(cs) ==
    IF \A i \in 1..Len(cs) : ~IsDigit(cs[i]) THEN JUndef
    ELSE LET a == CHOOSE i \in 1..Len(cs) :
                     IsDigit(cs[i]) /\ \A j \in 1..(i-1) : ~IsDigit(cs[j])
             b == CHOOSE i \in a..Len(cs) :
                     /\ \A j \in a..i : IsDigit(cs[j])
                     /\ (i = Len(cs) \/ ~IsDigit(cs[i+1]))
         IN JStr(SubSeq(cs, a, b))

\* Math.min(hi, Math.max(lo, n)) on a number given in tenths
Clamp(lo, hi, x) ==
    JTenths(IF x.v < 10 * lo THEN 10 * lo ELSE IF x.v > 10 * hi THEN 10 * hi ELSE x.v)

\* a rounding that sends a tie down
MathRoundHalfDown(num, den) == (2 * num + den - 1) \div (2 * den)

\* Math.round on the quotient num / den (den > 0): floor(q + 1/2)
MathRound(num, den) == (2 * num + den) \div (2 * den)

\* ------------------------------------------------------------------------
\* String literals of the source
\* ------------------------------------------------------------------------
S_Textiles == <<"T","e","x","t","i","l","e","s">>

S_Fertilizers == <<"F","e","r","t","i","l","i","z","e","r","s">>

S_Packaging == <<"P","a","c","k","a","g","i","n","g">>

S_General == <<"G","e","n","e","r","a","l">>

S_Economic == <<"E","c","o","n","o","m","i","c">>

S_Circular == <<"C","i","r","c","u","l","a","r">>

S_Environmental == <<"E","n","v","i","r","o","n","m","e","n","t","a","l">>

S_Social == <<"S","o","c","i","a","l">>

S_Performance == <<" ","P","e","r","f","o","r","m","a","n","c","e">>

\* ------------------------------------------------------------------------
\* scorecard-viz.tsx: constants and helpers
\* ------------------------------------------------------------------------
NumGoalsShort == 17 - 1

\* the goals makeCells emits cells for: sdg = 1 .. 17
NumGoals == 17

\* DIMENSIONS[i].key, in the order of the array literal
DIMENSIONS == << S_Economic \o S_Performance,
                 S_Circular \o S_Performance,
                 S_Environmental \o S_Performance,
                 S_Social \o S_Performance >>

\* canonicalSector of scorecard-viz.tsx (substring match, null when falsy)
VizCanonicalSector(s) ==
    IF Falsy(s) THEN JNull
    ELSE LET t == toLowerCase(s.s)
         IN IF includes(t, <<"t","e","x","t","i","l","e">>) THEN JStr(S_Textiles)
            ELSE IF includes(t, <<"f","e","r","t","i","l">>) THEN JStr(S_Fertilizers)
            ELSE IF includes(t, <<"p","a","c","k">>) THEN JStr(S_Packaging)
            ELSE s

\* canonicalDim of scorecard-viz.tsx (prefix match, then exact match)
VizCanonicalDim(s) ==
    IF Falsy(s) THEN JNull
    ELSE LET t == toLowerCase(s.s)
         IN IF startsWith(t, <<"e","c","o","n">>) THEN JStr(DIMENSIONS[1])
            ELSE IF startsWith(t, <<"c","i","r","c">>) THEN JStr(DIMENSIONS[2])
            ELSE IF startsWith(t, <<"e","n","v">>) THEN JStr(DIMENSIONS[3])
            ELSE IF startsWith(t, <<"s","o","c">>) THEN JStr(DIMENSIONS[4])
            ELSE IF \E i \in 1..4 : toLowerCase(DIMENSIONS[i]) = t
                 THEN JStr(DIMENSIONS[CHOOSE i \in 1..4 : toLowerCase(DIMENSIONS[i]) = t])
            ELSE JNull

\* sum of the v fields of a sequence of numbers
RECURSIVE SumTenths(_)
SumTenths(xs) == IF xs = <<>> THEN 0 ELSE xs[1].v + SumTenths(Tail(xs))

\* a score read without the test for null: Number(null) is 0
RowScoreCoerced(r) == NumberOf(r.score)

\* the score a row adds to its bucket: r.score == null ? null : Number(r.score)
RowScore(r) == IF IsNullish(r.score) THEN JNull ELSE NumberOf(r.score)

\* a goal forced into 1..17 before the row is bucketed
RowSdgClamped(r) == Clamp(1, 17, NumberOf(Coalesce(r.sdg_number, JNum(0))))

\* the goal a row is bucketed under: Number(r.sdg_number ?? 0)
RowSdg(r) == NumberOf(Coalesce(r.sdg_number, JNum(0)))

\* Math.round(avgScore) of a bucket with sum (tenths) and n scored rows
RoundAvg(sum, n) == IF n = 0 THEN 0 ELSE MathRound(sum, 10 * n)

\* makeCells(rows, sector): 68 cells, goal-major, dimension-minor. info holds
\* what the bucketing loop reads of each kept row: its goal, its canonical
\* dimension and its score
makeCells(rows, sector) ==
    LET keep == SelectSeq(rows, LAMBDA r : VizCanonicalSector(r.sector) = sector)
        info == [i \in 1..Len(keep) |->
                    [sdg |-> RowSdg(keep[i]),
                     dim |-> VizCanonicalDim(keep[i].sustainability_dimension),
                     score |-> RowScore(keep[i])]]
        bucketed == SelectSeq([i \in 1..Len(keep) |-> i],
                        LAMBDA i : ~Falsy(info[i].sdg) /\ ~Falsy(info[i].dim))
        Cell(sdg, d) ==
            LET idx == SelectSeq(bucketed, LAMBDA i :
                           info[i].sdg = JNum(sdg) /\ info[i].dim = JStr(DIMENSIONS[d]))
                scored == SelectSeq(idx, LAMBDA i : IsFinite(info[i].score))
                sum == SumTenths([j \in 1..Len(scored) |-> info[scored[j]].score])
                n == Len(scored)
            IN [sdg |-> sdg, dim |-> DIMENSIONS[d],
                score |-> RoundAvg(sum, n), count |-> n,
                items |-> [j \in 1..Len(idx) |-> keep[idx[j]]]]
        nd == Len(DIMENSIONS)
    IN [k \in 1..(NumGoals * nd) |-> Cell(((k - 1) \div nd) + 1, ((k - 1) % nd) + 1)]

\* ------------------------------------------------------------------------
\* scorecard-viz.tsx: the layout effect (useGridRoulette). Lengths are in
\* thousandths of a pixel, so that * 0.12, / 2 and / 5 are exact
\* ------------------------------------------------------------------------
\* the goals the layout draws segments for: sdg = 1 .. 17
LayoutGoals == 17

\* the ring levels of a cell: level = 1 .. 5
LayoutLevels == 5

\* Math.max(110, ...) of the margin
MinMargin == 110

\* const innerRadius = 120
InnerRadius == 120

\* DIMENSIONS[i].color
DimColors == << "#DC2626", "#FFB800", "#27AE60", "#3498DB" >>

\* the fill of a level above the score
EmptyFill == "#f3f4f6"

Min2(a, b) == IF a < b THEN a ELSE b

Max2(a, b) == IF a > b THEN a ELSE b

\* cells.find((c) => c.sdg === sdg && c.dim === dim.key)'s score, 0 when
\* no cell is found
FoundScore(cs, sdg, d) ==
    LET found == { k \in 1..Len(cs) : cs[k].sdg = sdg /\ cs[k].dim = DIMENSIONS[d] }
    IN IF found = {} THEN 0
       ELSE cs[CHOOSE k \in found : \A j \in found : k <= j].score

\* the body of the effect: the ring segments of the 17 x 4 cells, goal by
\* goal, dimension by dimension, one path per level 1..5, filled with the
\* dimension's colour when level <= score
DrawSegments(cs, width, height) ==
    LET margin == Max2(1000 * MinMargin, 120 * Min2(width, height))
        outerRadius == 500 * Min2(width, height) - margin
        innerRadius == 1000 * InnerRadius
        scoreRadiusWidth == (outerRadius - innerRadius) \div LayoutLevels
        nd == Len(DIMENSIONS)
        nl == LayoutLevels
    IN [k \in 1..(LayoutGoals * nd * nl) |->
           LET c == ((k - 1) \div nl) + 1
               sdg == ((c - 1) \div nd) + 1
               d == ((c - 1) % nd) + 1
               level == ((k - 1) % nl) + 1
               achieved == level <= FoundScore(cs, sdg, d)
           IN [sdg |-> sdg, dim |-> DIMENSIONS[d], level |-> level,
               slot |-> c - 1,
               levelInnerRadius |-> innerRadius + (level - 1) * scoreRadiusWidth,
               levelOuterRadius |-> innerRadius + (level - 1) * scoreRadiusWidth
                                       + scoreRadiusWidth,
               fill |-> IF achieved THEN DimColors[d] ELSE EmptyFill,
               achieved |-> achieved]]

\* the effect without the test of the size
useGridRouletteUnguarded(cs, width, height) == DrawSegments(cs, width, height)

\* the effect of useGridRoulette: nothing while width or height is 0
useGridRoulette(cs, width, height) ==
    IF width = 0 \/ height = 0 THEN <<>>
    ELSE DrawSegments(cs, width, height)

\* ------------------------------------------------------------------------
\* scorecard-viz.tsx: the summary of SdgGridRouletteVisualization
\* ------------------------------------------------------------------------
\* the bounds of the size the resize observer sets
MinTarget == 700

MaxTarget == 1300

\* the goals of sdgTotals: sdg = 1 .. 17
TotalGoals == 17

\* the length of the top and of the bottom list
TopN == 2

\* the divisor of the percentage
MaxTotal == 85

\* Math.max(700, Math.min(1300, cw))
TargetSize(cw) == Max2(MinTarget, Min2(MaxTarget, cw))

\* reduce((sum, c) => sum + c.score, 0)
RECURSIVE SumCellScores(_)
SumCellScores(cs) == IF cs = <<>> THEN 0 ELSE cs[1].score + SumCellScores(Tail(cs))

\* dimensionTotals, in the order of DIMENSIONS
DimensionTotals(cs) ==
    [d \in 1..Len(DIMENSIONS) |->
        SumCellScores(SelectSeq(cs, LAMBDA c : c.dim = DIMENSIONS[d]))]

\* Math.round((score / 85) * 100)
Percentage(score) == MathRound(100 * score, MaxTotal)

\* the place of xs[i] in a stable sort with (a, b) => a.score - b.score
RankAscending(xs, i) ==
    1 + Cardinality({ j \in 1..Len(xs) :
            \/ xs[j].score < xs[i].score
            \/ xs[j].score = xs[i].score /\ j < i })

\* a sort that puts the lowest total first
SortAscending(xs) ==
    CHOOSE out \in { [p \in 1..Len(v) |-> v[CHOOSE i \in 1..Len(v) : RankAscending(v, i) = p]] :
                       v \in {xs} } : TRUE

\* the place of xs[i] in a stable sort with (a, b) => b.score - a.score:
\* behind every element with a higher score and every earlier element with
\* the same score
RankDescending(xs, i) ==
    1 + Cardinality({ j \in 1..Len(xs) :
            \/ xs[j].score > xs[i].score
            \/ xs[j].score = xs[i].score /\ j < i })

\* Array.prototype.sort with (a, b) => b.score - a.score: stable, descending
\* (v is the array, evaluated once)
SortDescending(xs) ==
    CHOOSE out \in { [p \in 1..Len(v) |-> v[CHOOSE i \in 1..Len(v) : RankDescending(v, i) = p]] :
                       v \in {xs} } : TRUE

\* sdgTotals: the total of each goal, sorted
SdgTotals(cs) ==
    SortDescending([g \in 1..TotalGoals |->
        [sdg |-> g, score |-> SumCellScores(SelectSeq(cs, LAMBDA c : c.sdg = g))]])

\* xs.slice(0, n)
SliceFirst(xs, n) == SubSeq(xs, 1, Min2(n, Len(xs)))

\* xs.slice(-n)
SliceLast(xs, n) == SubSeq(xs, Max2(1, Len(xs) - n + 1), Len(xs))

\* ------------------------------------------------------------------------
\* FormPage.tsx: constants and helpers
\* ------------------------------------------------------------------------
\* the goals buildPages iterates: sdg = 1 .. 17
FormGoals == 17

DIM_ORDER == << S_Circular, S_Environmental, S_Economic, S_Social >>

DIM_SET == { DIM_ORDER[i] : i \in 1..Len(DIM_ORDER) }

SECTOR_ORDER == << S_Textiles, S_Fertilizers, S_Packaging >>

\* (s || "")
StrOrEmpty(s) == IF Falsy(s) THEN <<>> ELSE s.s

\* norm(s) = (s || "").trim().toLowerCase()
norm(s) == toLowerCase(trim(StrOrEmpty(s)))

\* makeKey(q) = `${norm(q.sector)}|${q.sdg_number}|${norm(q.sustainability_dimension)}`
makeKey(q) ==
    norm(q.sector) \o <<"|">> \o StringOf(q.sdg_number) \o <<"|">>
        \o norm(q.sustainability_dimension)

\* sectorAliases[k], undefined for a key that is not in the table
sectorAliases(k) ==
    CASE k = <<"t","e","x","t","i","l","e">>     -> JStr(S_Textiles)
      [] k = <<"t","e","x","t","i","l","e","s">> -> JStr(S_Textiles)
      [] k = <<"f","e","r","t","i","l","i","z","e","r">>     -> JStr(S_Fertilizers)
      [] k = <<"f","e","r","t","i","l","i","z","e","r","s">> -> JStr(S_Fertilizers)
      [] k = <<"p","a","c","k","a","g","i","n","g">> -> JStr(S_Packaging)
      [] OTHER -> JUndef

\* canonicalSector of FormPage.tsx: sectorAliases[k] || (s?.trim() || "General")
FormCanonicalSector(s) ==
    LET k == norm(s)
        a == sectorAliases(k)
        tr == IF IsNullish(s) THEN <<>> ELSE trim(s.s)
    IN IF ~Falsy(a) THEN a.s
       ELSE IF tr # <<>> THEN tr ELSE S_General

\* canonicalDim of FormPage.tsx: (DIM_SET.has(t) ? t : d || "").trim()
FormCanonicalDim(d) ==
    LET t == trim(StrOrEmpty(d))
    IN trim(IF t \in DIM_SET THEN t ELSE StrOrEmpty(d))

\* sanitizeQuestions(qs): canonical sector and dimension, first key wins
RECURSIVE SanitizeFrom(_, _, _)
SanitizeFrom(qs, seen, out) ==
    IF qs = <<>> THEN out
    ELSE LET q == Head(qs)
             sector == FormCanonicalSector(q.sector)
             dim == FormCanonicalDim(q.sustainability_dimension)
             normQ == [q EXCEPT !.sector = JStr(sector),
                                !.sustainability_dimension = JStr(dim)]
             key == makeKey(normQ)
         IN IF dim \notin DIM_SET THEN SanitizeFrom(Tail(qs), seen, out)
            ELSE IF key \in seen THEN SanitizeFrom(Tail(qs), seen, out)
            ELSE SanitizeFrom(Tail(qs), seen \cup {key}, Append(out, normQ))

sanitizeQuestions(qs) == SanitizeFrom(qs, {}, <<>>)

\* DIM_ORDER.indexOf(d), 99 for -1 (the rank sortByDim compares)
DimRank(d) ==
    IF d.t = "str" /\ \E i \in 1..Len(DIM_ORDER) : DIM_ORDER[i] = d.s
    THEN (CHOOSE i \in 1..Len(DIM_ORDER) : DIM_ORDER[i] = d.s) - 1
    ELSE 99

\* arr.sort(sortByDim): a stable sort on DimRank
RECURSIVE SortFrom(_, _)
SortFrom(arr, ranks) ==
    IF ranks = <<>> THEN <<>>
    ELSE SelectSeq(arr, LAMBDA q : DimRank(q.sustainability_dimension) = Head(ranks))
         \o SortFrom(arr, Tail(ranks))

sortByDim(arr) == SortFrom(arr, <<0, 1, 2, 3, 99>>)

\* pickFourDimsFor without the all-four-required return
pickFourDimsForPartial(arr) ==
    LET present == SelectSeq(DIM_ORDER, LAMBDA d :
                       \E i \in 1..Len(arr) : arr[i].sustainability_dimension = JStr(d))
        First(d) == arr[CHOOSE i \in 1..Len(arr) :
                      /\ arr[i].sustainability_dimension = JStr(d)
                      /\ \A j \in 1..(i-1) : arr[j].sustainability_dimension # JStr(d)]
    IN sortByDim([k \in 1..Len(present) |-> First(present[k])])

\* pickFourDimsFor(arr): the first row of each dimension of DIM_ORDER, or
\* null, written <<>>, when the pool is empty or a dimension is missing
pickFourDimsFor(arr) ==
    LET Has(d) == \E i \in 1..Len(arr) :
                      arr[i].sustainability_dimension = JStr(d)
        First(d) == arr[CHOOSE i \in 1..Len(arr) :
                      /\ arr[i].sustainability_dimension = JStr(d)
                      /\ \A j \in 1..(i-1) : arr[j].sustainability_dimension # JStr(d)]
    IN IF arr = <<>> THEN <<>>
       ELSE IF \E k \in 1..Len(DIM_ORDER) : ~Has(DIM_ORDER[k]) THEN <<>>
       ELSE sortByDim([k \in 1..Len(DIM_ORDER) |-> First(DIM_ORDER[k])])

\* the active sectors in the order given
orderedSectorsAsGiven(activeSectors) == activeSectors

\* SECTOR_ORDER.filter((s) => activeSectors.includes(s))
orderedSectors(activeSectors) ==
    SelectSeq(SECTOR_ORDER, LAMBDA s : \E i \in 1..Len(activeSectors) : activeSectors[i] = s)

\* buildPages(questions, activeSectors): for each ordered sector and each goal
\* 1..17 the four rows of the pool, when pickFourDimsFor finds them. canon
\* holds canonicalSector(q.sector) of each question
buildPages(questions, activeSectors) ==
    LET ordered == orderedSectors(activeSectors)
        canon == [i \in 1..Len(questions) |-> FormCanonicalSector(questions[i].sector)]
        idxs == [i \in 1..Len(questions) |-> i]
        Pool(sector, sdg) ==
            LET sel == SelectSeq(idxs, LAMBDA i :
                           canon[i] = sector /\ questions[i].sdg_number = JNum(sdg))
            IN [j \in 1..Len(sel) |-> questions[sel[j]]]
        four == [k \in 1..(Len(ordered) * FormGoals) |->
                    pickFourDimsFor(Pool(ordered[((k - 1) \div FormGoals) + 1],
                                         ((k - 1) % FormGoals) + 1))]
    IN SelectSeq(four, LAMBDA f : f # <<>>)

\* filtered of FormPage: the context questions of the active sectors
filtered(ctxQuestions, activeSectors) ==
    SelectSeq(ctxQuestions, LAMBDA q :
        \E i \in 1..Len(activeSectors) : activeSectors[i] = FormCanonicalSector(q.sector))

\* ------------------------------------------------------------------------
\* VisualizationPage: normalizeRow
\* ------------------------------------------------------------------------
MetaFields == {"sdg_description", "sdg_target", "kpi", "question",
               "score_description", "source", "notes", "status", "comment"}

MinGoal == 1

MaxGoal == 17

MinScore == 0

MaxScore == 5

\* normalizeRow(r, sectorLabel); an absent r reads as undefined in every field
normalizeRow(r, sectorLabel) ==
    LET dimRaw == toLowerCase(StringOf(Coalesce(r.sustainability_dimension, JStr(<<>>))))
        normalizedDim ==
            IF startsWith(dimRaw, <<"e","c","o","n">>) THEN JStr(DIMENSIONS[1])
            ELSE IF startsWith(dimRaw, <<"c","i","r","c">>) THEN JStr(DIMENSIONS[2])
            ELSE IF startsWith(dimRaw, <<"e","n","v">>) THEN JStr(DIMENSIONS[3])
            ELSE IF startsWith(dimRaw, <<"s","o","c">>) THEN JStr(DIMENSIONS[4])
            ELSE JNull
        sdgNum ==
            IF IsNullish(r.sdg_number) THEN JNull
            ELSE NumberOf(Coalesce(FirstDigitRun(StringOf(r.sdg_number)), r.sdg_number))
        scoreNum == IF IsNullish(r.score) THEN JNull ELSE NumberOf(r.score)
    IN [sdg_number |-> IF IsFinite(sdgNum) THEN Clamp(MinGoal, MaxGoal, sdgNum) ELSE JNull,
        sustainability_dimension |-> normalizedDim,
        sector |-> Coalesce(r.sector, sectorLabel),
        score |-> IF IsFinite(scoreNum) THEN Clamp(MinScore, MaxScore, scoreNum) ELSE JNull,
        meta |-> [f \in MetaFields |-> Coalesce(r.meta[f], JNull)]]

\* key.replace(/_/g, " ")
replaceUnderscores(cs) == [i \in 1..Len(cs) |-> IF cs[i] = "_" THEN " " ELSE cs[i]]

\* sectorLabelFromKey(key): the label of a dataset key
sectorLabelFromKey(key) ==
    LET t == toLowerCase(key)
    IN IF includes(t, <<"t","e","x","t","i","l","e">>) THEN S_Textiles
       ELSE IF includes(t, <<"f","e","r","t","i","l">>) THEN S_Fertilizers
       ELSE replaceUnderscores(key)

\* ------------------------------------------------------------------------
\* Inputs of the aggregation and page-building specification
\* ------------------------------------------------------------------------
Row(sector, sdg, dim, score) ==
    [sector |-> JStr(sector), sdg_number |-> sdg,
     sustainability_dimension |-> JStr(dim), score |-> score]

\* the dimension labels of an uploaded questionnaire
QuestionDims == << S_Economic, S_Circular, S_Environmental, S_Social >>

\* the rows of one (sector, goal): all four dimensions (missing = 0), all but
\* the dimension numbered missing (1..4), or none (missing = 5); the row of
\* dimension d carries score d + 1
GroupRows(sector, sdg, missing) ==
    IF missing = 5 THEN <<>>
    ELSE LET all == [d \in 1..4 |-> [d |-> d, row |-> Row(sector, JNum(sdg), QuestionDims[d], JNum(d + 1))]]
             kept == SelectSeq(all, LAMBDA e : e.d # missing)
         IN [i \in 1..Len(kept) |-> kept[i].row]

\* rows that repeat a key, spell the sector or the dimension differently, or
\* carry an out-of-range goal, an unknown dimension or no score
ExtraPool ==
    { Row(S_Textiles, JNum(1), S_Economic, JNum(3)),
      Row(<<"t","e","x","t","i","l","e">>, JNum(1), S_Circular, JNum(4)),
      Row(S_Textiles, JNum(1), S_Economic \o S_Performance, JNum(2)),
      Row(S_Textiles, JNum(18), S_Social, JNum(1)),
      Row(S_General, JNum(1), <<"b","o","g","u","s">>, JNum(5)),
      Row(S_Textiles, JNum(1), S_Social, JNull),
      Row(S_Textiles, JNum(2), <<"b","o","g","u","s">>, JNum(4)) }

SeqsUpTo(S, n) == UNION { [1..k -> S] : k \in 0..n }

\* every input row list of the model
Inputs ==
    { IF rev THEN Reverse(base \o ex) ELSE base \o ex :
        base \in { GroupRows(S_Textiles, 2, b) \o GroupRows(S_Packaging, 1, c)
                     \o GroupRows(S_Textiles, 1, a) :
                       a \in 0..5, b \in {0, 5}, c \in {0, 5} },
        ex \in SeqsUpTo(ExtraPool, MaxExtra),
        rev \in BOOLEAN }

\* the activeSectors arguments of the model
ActivePool == { SECTOR_ORDER,
                << S_Packaging, S_Textiles >>,
                << S_Packaging >> }

\* the sector arguments of the model
SectorArgs == { S_Textiles, S_Packaging }

\* ------------------------------------------------------------------------
\* Inputs of the visualization specification: rows as the scoring result
\* delivers them, not normalized
\* ------------------------------------------------------------------------
\* a result with a few answered goals
VizSparseRows ==
    << Row(S_Textiles, JNum(1), S_Economic, JNum(3)),
       Row(S_Textiles, JNum(1), S_Circular, JNum(4)),
       Row(S_Textiles, JNum(2), S_Economic, JNum(5)),
       Row(S_Textiles, JNum(2), S_Social, JNum(5)),
       Row(S_Textiles, JNum(3), S_Environmental, JNum(1)),
       Row(S_Textiles, JNum(5), S_Social, JNum(2)) >>

\* a result with one answered question for every goal, scores 1..5
VizFullRows ==
    [g \in 1..17 |-> Row(S_Textiles, JNum(g), QuestionDims[(g % 4) + 1], JNum(((3 * g) % 5) + 1))]

\* further rows: scores outside 0..5, missing scores, another spelling of
\* the sector, another sector
VizExtraPool ==
    { Row(S_Textiles, JNum(1), S_Economic, JNum(7)),
      Row(S_Textiles, JNum(2), S_Social, JNum(-1)),
      Row(S_Textiles, JNum(4), S_Circular, JNull),
      Row(S_Textiles, JNum(1), S_Economic, JStr(<<"n","/","a">>)),
      Row(<<"t","e","x","t","i","l","e">>, JNum(17), DIMENSIONS[3], JNum(5)),
      Row(S_Packaging, JNum(1), S_Economic, JNum(4)) }

VizInputs ==
    { base \o ex : base \in { <<>>, VizSparseRows, VizFullRows },
                   ex \in SeqsUpTo(VizExtraPool, MaxVizExtra) }

\* the sector prop: a key of the scoring result
VizSectorArgs == { S_Textiles, toLowerCase(S_Textiles) }

\* the widths the resize observer reports
ContentWidths == { 0, 2000 }

\* ------------------------------------------------------------------------
\* Inputs of the normalization specification
\* ------------------------------------------------------------------------
RawGoals ==
    { JNull, JUndef, JNaN, JNum(3), JNum(0), JNum(-5), JNum(25), JTenths(37),
      JStr(<<"S","D","G"," ","2","5">>), JStr(<<"S","D","G"," ","3">>),
      JStr(<<"7">>), JStr(<<>>), JStr(<<"a","b","c">>), JStr(<<"-","2">>) }

RawScores ==
    { JNull, JUndef, JNaN, JNum(7), JNum(-1), JNum(3), JNum(0), JTenths(25),
      JStr(<<"4">>), JStr(<<" ","2"," ">>), JStr(<<>>), JStr(<<"a","b","c">>),
      JStr(<<"9",".","5">>) }

RawDims ==
    { JNull, JUndef, JStr(<<>>), JStr(S_Economic), JStr(toLowerCase(DIMENSIONS[1])),
      JStr(<<"E","C","O","N","O","M","I","C">>), JStr(S_Circular),
      JStr(DIMENSIONS[3]), JStr(S_Social), JStr(<<"b","o","g","u","s">>) }

RawSectors == { JUndef, JNull, JStr(<<"t","e","x","t","i","l","e">>) }

RawMetas ==
    { [f \in MetaFields |-> JUndef],
      [f \in MetaFields |-> IF f = "kpi" THEN JStr(<<"k">>) ELSE JNull] }

RawRows ==
    [sdg_number : RawGoals, sustainability_dimension : RawDims,
     sector : RawSectors, score : RawScores, meta : RawMetas]

SectorLabels == { JStr(S_General), JStr(S_Textiles) }

\* ------------------------------------------------------------------------
\* Inputs of the canonicalization specification
\* ------------------------------------------------------------------------
\* dimension labels: prefixes in every letter case, the canonical strings,
\* labels that only contain a prefix, unknown and empty labels
DimLabels ==
    { S_Economic, toLowerCase(DIMENSIONS[1]), <<"E","C","O","N","O","M","I","C">>,
      DIMENSIONS[1], <<"e","c","o","n">>, <<"e","c","o">>,
      S_Circular, <<"C","I","R","C">>, DIMENSIONS[2],
      S_Environmental, <<"e","n","v">>, DIMENSIONS[3], <<"E","n">>,
      S_Social, <<"s","o","c","i","e","t","y">>, DIMENSIONS[4],
      <<" ">> \o S_Economic, <<"b","o","g","u","s">>,
      Tail(S_Performance), <<"M","a","c","r","o","e","c","o","n">> }

\* sector labels: the aliases in every letter case and with blanks around
\* them, labels that only contain an alias, other labels, blank labels
SectorTexts ==
    { <<"t","e","x","t","i","l","e">>, toLowerCase(S_Textiles), S_Textiles,
      <<"T","E","X","T","I","L","E">>, <<" ">> \o S_Textiles \o <<" ">>,
      <<"f","e","r","t","i","l","i","z","e","r">>, toLowerCase(S_Fertilizers),
      S_Fertilizers, toLowerCase(S_Packaging), S_Packaging,
      S_Textiles \o <<"_","M","i","l","l","s">>,
      <<"T","e","x","t","i","l","e"," ","M","i","l","l","s">>,
      <<"f","e","r","t","i","l","e">>, <<"b","a","c","k","p","a","c","k","s">>,
      S_General, <<"C","h","e","m","i","c","a","l","s">>,
      <<" ","C","h","e","m","i","c","a","l","s"," ">>,
      <<"r","a","w","_","m","a","t","e","r","i","a","l","s">>,
      <<>>, <<" "," ">> }

\* every label of the model, a missing label included
Labels == {JNull, JUndef} \cup { JStr(cs) : cs \in DimLabels \cup SectorTexts }

\* the results of the helpers before any has been called
NoCanon == [vizDim |-> JUndef, rowDim |-> JUndef, formSector |-> JUndef,
            vizSector |-> JUndef, keySector |-> JUndef, rowSector |-> JUndef]

\* a row that has not been computed yet
NoRow == [sdg_number |-> JUndef, sustainability_dimension |-> JUndef,
          sector |-> JUndef, score |-> JUndef, meta |-> [f \in MetaFields |-> JUndef]]

\* ------------------------------------------------------------------------
\* State
\* ------------------------------------------------------------------------
VARIABLES
    rows,           \* the row list handed to the aggregation core
    questions,      \* the question list of the context (ctxQuestions)
    activeSectors,  \* the activeSectors argument of buildPages
    pages,          \* the result of buildPages
    sectorArg,      \* the sector argument of makeCells
    cells,          \* the result of makeCells
    pc,             \* "input", "sanitized", "pages" (of the sanitized list),
                    \* "rawpages" (of the list as stored), "cells"
    raw,            \* the raw row given to normalizeRow
    sectorLabel,    \* the fallback sector label given to normalizeRow
    once,           \* normalizeRow(raw, sectorLabel)
    twice,          \* normalizeRow(once, sectorLabel)
    npc,            \* "raw", "once", "twice"
    label,          \* the label given to the canonicalization helpers
    canon,          \* what each helper returned for label
    cpc,            \* "label", "dim", "sector"
    size,           \* the size state of the visualization component
    geometry,       \* the ring segments the layout effect has drawn
    dimensionTotals,\* the per-dimension totals of the summary
    percentages,    \* the per-dimension percentages of the summary
    sdgTotals,      \* the per-goal totals, sorted
    topSDGs,        \* the top list of the summary
    bottomSDGs,     \* the bottom list of the summary
    isDownloading,  \* the isDownloading state of the visualization component
    ran,            \* the hooks whose callback ran in the last render:
                    \* "cells", "summary" (useMemo), "layout" (the effect)
    entry,          \* the arguments of a direct call of makeCells
    outcome,        \* how that call ended
    selectedSector, \* the selectedSector label of the context
    selectedSectors,\* the selectedSectors state of FormPage
    pageIdx,        \* the pageIdx state of FormPage (0-based)
    scoresByKey,    \* the scoresByKey state of FormPage
    request,        \* the body of the last calculate request FormPage sent
    localStorage,   \* the upload keys of localStorage
    sessionStorage, \* the scorecard keys of sessionStorage
    ctxSector,      \* the sector state of the context
    file,           \* the file state of the context
    isBusy,         \* the isBusy state of UploadExcelPage
    error,          \* the error state of UploadExcelPage
    inflight,       \* the upload requests that have not been answered yet
    clock           \* the uploads answered so far, the time new Date() reads

aggVars == <<rows, questions, activeSectors, pages, sectorArg, cells, pc>>

normVars == <<raw, sectorLabel, once, twice, npc>>

canonVars == <<label, canon, cpc>>

vizVars == <<size, geometry, dimensionTotals, percentages, sdgTotals, topSDGs, bottomSDGs,
            isDownloading, ran>>

entryVars == <<entry, outcome>>

formVars == <<selectedSector, selectedSectors, pageIdx, scoresByKey, request>>

uploadVars == <<localStorage, sessionStorage, ctxSector, file, isBusy, error, inflight, clock>>

uiVars == <<entryVars, formVars, uploadVars>>

vars == <<rows, questions, activeSectors, pages, sectorArg, cells, pc,
          raw, sectorLabel, once, twice, npc,
          label, canon, cpc,
          size, geometry, dimensionTotals, percentages, sdgTotals, topSDGs, bottomSDGs,
          isDownloading, ran, entry, outcome,
          selectedSector, selectedSectors, pageIdx, scoresByKey, request,
          localStorage, sessionStorage, ctxSector, file, isBusy, error, inflight, clock>>

NormIdle ==
    /\ raw = NoRow
    /\ sectorLabel = JStr(S_General)
    /\ once = NoRow
    /\ twice = NoRow
    /\ npc = "idle"

\* the canonicalization helpers have been given nothing
CanonIdle ==
    /\ label = JUndef
    /\ canon = NoCanon
    /\ cpc = "idle"

\* no visualization component is mounted
VizIdle ==
    /\ size = [w |-> 0, h |-> 0]
    /\ geometry = <<>>
    /\ dimensionTotals = <<>>
    /\ percentages = <<>>
    /\ sdgTotals = <<>>
    /\ topSDGs = <<>>
    /\ bottomSDGs = <<>>
    /\ isDownloading = FALSE
    /\ ran = {}

AggIdle ==
    /\ rows = <<>>
    /\ questions = <<>>
    /\ activeSectors = <<>>
    /\ pages = <<>>
    /\ sectorArg = <<>>
    /\ cells = <<>>
    /\ pc = "idle"

\* the localStorage keys an upload writes
UploadKeys == {"uploadedQuestions", "uploadedSector", "uploadedTimestamp", "uploadedFilename"}

\* the sessionStorage keys of a scorecard result
ScorecardKeys == {"scorecard", "scorecardSector"}

\* makeCells has not been called directly
EntryIdle ==
    /\ entry = [rows |-> JUndef, sector |-> JUndef]
    /\ outcome = [kind |-> "none"]

\* no questionnaire page is mounted
FormIdle ==
    /\ selectedSector = <<>>
    /\ selectedSectors = <<>>
    /\ pageIdx = 0
    /\ scoresByKey = <<>>
    /\ request = [sent |-> FALSE]

\* no upload page is mounted and the storages are empty
UploadIdle ==
    /\ localStorage = [k \in UploadKeys |-> JNull]
    /\ sessionStorage = [k \in ScorecardKeys |-> JNull]
    /\ ctxSector = <<>>
    /\ file = JNull
    /\ isBusy = FALSE
    /\ error = JNull
    /\ inflight = <<>>
    /\ clock = 0

UiIdle ==
    /\ EntryIdle
    /\ FormIdle
    /\ UploadIdle

\* ------------------------------------------------------------------------
\* Aggregation and page building
\* ------------------------------------------------------------------------
Init ==
    /\ rows \in Inputs
    /\ questions = rows
    /\ activeSectors = <<>>
    /\ pages = <<>>
    /\ sectorArg = <<>>
    /\ cells = <<>>
    /\ pc = "input"
    /\ NormIdle
    /\ CanonIdle
    /\ VizIdle
    /\ UiIdle

\* FormPage fetchQ: the context questions become sanitizeQuestions(raw)
SanitizeQuestions ==
    /\ pc = "input"
    /\ questions' = sanitizeQuestions(rows)
    /\ pc' = "sanitized"
    /\ UNCHANGED <<rows, activeSectors, pages, sectorArg, cells>>
    /\ UNCHANGED normVars
    /\ UNCHANGED <<canonVars, vizVars>>
    /\ UNCHANGED uiVars

\* FormPage: pages = buildPages(filtered, activeSectors)
BuildPages(active) ==
    /\ pc \in {"input", "sanitized"}
    /\ activeSectors' = active
    /\ pages' = buildPages(filtered(questions, active), active)
    /\ pc' = IF pc = "sanitized" THEN "pages" ELSE "rawpages"
    /\ UNCHANGED <<rows, questions, sectorArg, cells>>
    /\ UNCHANGED normVars
    /\ UNCHANGED <<canonVars, vizVars>>
    /\ UNCHANGED uiVars

\* SdgGridRouletteVisualization: cells = makeCells(rows, sector)
MakeCells(sector) ==
    /\ pc = "input"
    /\ sectorArg' = sector
    /\ cells' = makeCells(rows, JStr(sector))
    /\ pc' = "cells"
    /\ UNCHANGED <<rows, questions, activeSectors, pages>>
    /\ UNCHANGED normVars
    /\ UNCHANGED <<canonVars, vizVars>>
    /\ UNCHANGED uiVars

Next ==
    \/ SanitizeQuestions
    \/ \E active \in ActivePool : BuildPages(active)
    \/ \E sector \in SectorArgs : MakeCells(sector)

Spec == Init /\ [][Next]_vars

\* ------------------------------------------------------------------------
\* Normalization
\* ------------------------------------------------------------------------
InitNorm ==
    /\ raw \in RawRows
    /\ sectorLabel \in SectorLabels
    /\ once = NoRow
    /\ twice = NoRow
    /\ npc = "raw"
    /\ AggIdle
    /\ CanonIdle
    /\ VizIdle
    /\ UiIdle

\* normalizeDataset: each row is normalized
NormalizeRow ==
    /\ npc = "raw"
    /\ once' = normalizeRow(raw, sectorLabel)
    /\ npc' = "once"
    /\ UNCHANGED <<raw, sectorLabel, twice>>
    /\ UNCHANGED aggVars
    /\ UNCHANGED <<canonVars, vizVars>>
    /\ UNCHANGED uiVars

\* a second pass over an already normalized row
NormalizeAgain ==
    /\ npc = "once"
    /\ twice' = normalizeRow(once, sectorLabel)
    /\ npc' = "twice"
    /\ UNCHANGED <<raw, sectorLabel, once>>
    /\ UNCHANGED aggVars
    /\ UNCHANGED <<canonVars, vizVars>>
    /\ UNCHANGED uiVars

NextNorm ==
    \/ NormalizeRow
    \/ NormalizeAgain

SpecNorm == InitNorm /\ [][NextNorm]_vars

\* ------------------------------------------------------------------------
\* Canonicalization of dimension and sector labels
\* ------------------------------------------------------------------------
\* a raw row that carries only the field f
RowWith(f, x) ==
    IF f = "dim" THEN [NoRow EXCEPT !.sustainability_dimension = x]
    ELSE [NoRow EXCEPT !.sector = x]

InitCanon ==
    /\ label \in Labels
    /\ canon = NoCanon
    /\ cpc = "label"
    /\ raw = NoRow
    /\ sectorLabel \in SectorLabels
    /\ once = NoRow
    /\ twice = NoRow
    /\ npc = "idle"
    /\ AggIdle
    /\ VizIdle
    /\ UiIdle

\* the label is read as a dimension by canonicalDim of scorecard-viz.tsx and
\* by normalizeRow
CanonicalizeDim ==
    /\ cpc = "label"
    /\ canon' = [canon EXCEPT
          !.vizDim = VizCanonicalDim(label),
          !.rowDim = normalizeRow(RowWith("dim", label), sectorLabel).sustainability_dimension]
    /\ cpc' = "dim"
    /\ UNCHANGED label
    /\ UNCHANGED <<aggVars, normVars, vizVars>>
    /\ UNCHANGED uiVars

\* the label is read as a sector by canonicalSector of FormPage.tsx and of
\* scorecard-viz.tsx, by sectorLabelFromKey (a key is always a string) and by
\* normalizeRow
CanonicalizeSector ==
    /\ cpc = "label"
    /\ canon' = [canon EXCEPT
          !.formSector = JStr(FormCanonicalSector(label)),
          !.vizSector = VizCanonicalSector(label),
          !.keySector = IF label.t = "str" THEN JStr(sectorLabelFromKey(label.s)) ELSE JUndef,
          !.rowSector = normalizeRow(RowWith("sector", label), sectorLabel).sector]
    /\ cpc' = "sector"
    /\ UNCHANGED label
    /\ UNCHANGED <<aggVars, normVars, vizVars>>
    /\ UNCHANGED uiVars

NextCanon ==
    \/ CanonicalizeDim
    \/ CanonicalizeSector

SpecCanon == InitCanon /\ [][NextCanon]_vars

\* ------------------------------------------------------------------------
\* The visualization component SdgGridRouletteVisualization
\* ------------------------------------------------------------------------
InitViz ==
    /\ rows \in VizInputs
    /\ sectorArg \in VizSectorArgs
    /\ questions = <<>>
    /\ activeSectors = <<>>
    /\ pages = <<>>
    /\ cells = <<>>
    /\ pc = "props"
    /\ VizIdle
    /\ NormIdle
    /\ CanonIdle
    /\ UiIdle

\* every dependency list is compared as if it had changed
depsAlwaysChanged(prev, next) == TRUE

\* a hook runs its callback again when an entry of its dependency list is
\* not the one of the previous render
depsChanged(prev, next) == prev # next

\* the hooks that run in a render: cells = useMemo(..., [rows, sector]), the
\* summary memos have [cells] and the layout effect has [cells, width,
\* height]; cells is a new array exactly when its memo ran
RanHooks(propsBefore, propsAfter, sizeBefore, sizeAfter) ==
    (IF depsChanged(propsBefore, propsAfter) THEN {"cells", "summary"} ELSE {})
    \cup (IF \/ depsChanged(propsBefore, propsAfter)
              \/ depsChanged(<<sizeBefore.w, sizeBefore.h>>, <<sizeAfter.w, sizeAfter.h>>)
           THEN {"layout"} ELSE {})

\* a render of the mounted component after its props or state were set: each
\* hook whose dependencies changed runs, the others keep their value
Rerender ==
    /\ ran' = RanHooks(<<rows, sectorArg>>, <<rows', sectorArg'>>, size, size')
    /\ cells' = IF "cells" \in ran' THEN makeCells(rows', JStr(sectorArg')) ELSE cells
    /\ dimensionTotals' = IF "summary" \in ran' THEN DimensionTotals(cells') ELSE dimensionTotals
    /\ percentages' = [d \in 1..Len(DIMENSIONS) |-> Percentage(dimensionTotals'[d])]
    /\ sdgTotals' = IF "summary" \in ran' THEN SdgTotals(cells') ELSE sdgTotals
    /\ topSDGs' = SliceFirst(sdgTotals', TopN)
    /\ bottomSDGs' = Reverse(SliceLast(sdgTotals', TopN))
    /\ geometry' = IF "layout" \in ran' THEN useGridRoulette(cells', size'.w, size'.h)
                   ELSE geometry

\* the first render: cells and the summary are computed from the props, the
\* layout effect runs with the initial size
Mount ==
    /\ pc = "props"
    /\ cells' = makeCells(rows, JStr(sectorArg))
    /\ dimensionTotals' = DimensionTotals(cells')
    /\ percentages' = [d \in 1..Len(DIMENSIONS) |-> Percentage(dimensionTotals'[d])]
    /\ sdgTotals' = SdgTotals(cells')
    /\ topSDGs' = SliceFirst(sdgTotals', TopN)
    /\ bottomSDGs' = Reverse(SliceLast(sdgTotals', TopN))
    /\ geometry' = useGridRoulette(cells', size.w, size.h)
    /\ ran' = {"cells", "summary", "layout"}
    /\ pc' = "mounted"
    /\ UNCHANGED <<rows, questions, activeSectors, pages, sectorArg, size, isDownloading>>
    /\ UNCHANGED <<normVars, canonVars>>
    /\ UNCHANGED uiVars

\* the resize observer reports a content width: the size is set to a new
\* object and the component renders again
Resize(cw) ==
    /\ pc \in {"mounted", "drawn"}
    /\ size' = [w |-> TargetSize(cw), h |-> TargetSize(cw)]
    /\ pc' = "drawn"
    /\ UNCHANGED <<rows, questions, activeSectors, pages, sectorArg, isDownloading>>
    /\ Rerender
    /\ UNCHANGED <<normVars, canonVars>>
    /\ UNCHANGED uiVars

\* handleDownloadChart: setIsDownloading(true) when it starts and
\* setIsDownloading(false) when it ends; each renders the component again
SetIsDownloading(b) ==
    /\ pc \in {"mounted", "drawn"}
    /\ isDownloading' = b
    /\ UNCHANGED <<rows, questions, activeSectors, pages, sectorArg, size, pc>>
    /\ Rerender
    /\ UNCHANGED <<normVars, canonVars>>
    /\ UNCHANGED uiVars

\* the parent renders the component with a sector prop
ChangeSector(sector) ==
    /\ pc \in {"mounted", "drawn"}
    /\ sectorArg' = sector
    /\ UNCHANGED <<rows, questions, activeSectors, pages, size, isDownloading, pc>>
    /\ Rerender
    /\ UNCHANGED <<normVars, canonVars>>
    /\ UNCHANGED uiVars

NextViz ==
    \/ Mount
    \/ \E cw \in ContentWidths : Resize(cw)

SpecViz == InitViz /\ [][NextViz]_vars

\* ------------------------------------------------------------------------
\* The renders of the visualization component: resizes, the download flag
\* and new props, over results with at most MaxRenderExtra further rows
\* ------------------------------------------------------------------------
\* a further row of the sector and one of another sector
RenderExtraPool ==
    { Row(S_Textiles, JNum(1), S_Economic, JNum(7)),
      Row(S_Packaging, JNum(1), S_Economic, JNum(4)) }

RenderInputs ==
    { base \o ex : base \in { <<>>, VizSparseRows, VizFullRows },
                   ex \in SeqsUpTo(RenderExtraPool, MaxRenderExtra) }

InitRender ==
    /\ rows \in RenderInputs
    /\ sectorArg \in VizSectorArgs
    /\ questions = <<>>
    /\ activeSectors = <<>>
    /\ pages = <<>>
    /\ cells = <<>>
    /\ pc = "props"
    /\ VizIdle
    /\ NormIdle
    /\ CanonIdle
    /\ UiIdle

NextRender ==
    \/ Mount
    \/ \E cw \in ContentWidths : Resize(cw)
    \/ \E b \in BOOLEAN : SetIsDownloading(b)
    \/ \E sector \in VizSectorArgs : ChangeSector(sector)

SpecRender == InitRender /\ [][NextRender]_vars

\* ------------------------------------------------------------------------
\* Properties of the cell aggregator
\* ------------------------------------------------------------------------
\* the cells of (goal g, dimension d)
CellsAt(g, d) == { k \in 1..Len(cells) : cells[k].sdg = g /\ cells[k].dim = DIMENSIONS[d] }

\* C1: makeCells returns exactly 68 cells, one for each pair of a goal in
\* 1..17 and one of the 4 dimensions, none missing and none twice, whatever
\* the row list holds
C1_CellCompleteness ==
    pc = "cells" =>
        /\ Len(cells) = 68
        /\ \A g \in 1..17 : \A d \in 1..4 : Cardinality(CellsAt(g, d)) = 1

\* cells were computed from rows with a goal out of range and an unknown
\* dimension, for a sector none of the rows belongs to
C1_Witness ==
    /\ pc = "cells"
    /\ sectorArg = S_Packaging
    /\ rows # <<>>
    /\ \A i \in 1..Len(rows) : VizCanonicalSector(rows[i].sector) # JStr(S_Packaging)
    /\ \E i \in 1..Len(rows) : rows[i].sdg_number = JNum(18)
    /\ \E i \in 1..Len(rows) : VizCanonicalDim(rows[i].sustainability_dimension) = JNull
    /\ Len(cells) = 68

\* the scores of the scored rows of a cell, as integers, when all are integers
ScoredItems(c) == SelectSeq(c.items, LAMBDA r : IsFinite(RowScore(r)))

RECURSIVE SumScores(_)
SumScores(its) == IF its = <<>> THEN 0 ELSE RowScore(Head(its)).v + SumScores(Tail(its))

\* C3: the score of a cell with contributing scores in 0..5 is their mean
\* rounded to the nearest integer, a mean halfway between two integers going
\* up: [2,3] gives 3 and [2,2,3] gives 2
C3_RoundingLaw ==
    pc = "cells" =>
        \A k \in 1..Len(cells) :
            LET its == ScoredItems(cells[k])
                n == Len(its)
                tenths == SumScores(its)
                S == tenths \div 10
                sc == cells[k].score
            IN (/\ n >= 1
                /\ \A i \in 1..n : RowScore(its[i]).v \in {0, 10, 20, 30, 40, 50})
               => /\ 2 * sc * n - 2 * S <= n
                  /\ 2 * S - 2 * sc * n <= n
                  /\ (2 * S - 2 * sc * n = n \/ 2 * sc * n - 2 * S = n) => sc * n > S
                  /\ (n = 2 /\ S = 5) => sc = 3
                  /\ (n = 3 /\ S = 7) => sc = 2

\* a cell whose two contributing scores are 2 and 3 and whose score is 3
C3_Witness ==
    /\ pc = "cells"
    /\ \E k \in 1..Len(cells) :
          LET its == ScoredItems(cells[k])
          IN /\ Len(its) = 2
             /\ {RowScore(its[1]), RowScore(its[2])} = {JNum(2), JNum(3)}
             /\ cells[k].score = 3

\* ------------------------------------------------------------------------
\* Properties of the page builder
\* ------------------------------------------------------------------------
PagesBuilt == pc \in {"pages", "rawpages"}

\* the canonical sector, the goal and the canonical dimension of a row
SectorOf(q) == FormCanonicalSector(q.sector)

GoalOf(q) == q.sdg_number

DimOf(q) == VizCanonicalDim(q.sustainability_dimension)

CanonicalDims == { JStr(DIMENSIONS[d]) : d \in 1..4 }

\* the list buildPages was given
BuildInput == filtered(questions, activeSectors)

\* C2: every page has exactly 4 rows, of 4 pairwise distinct canonical
\* dimensions, of one sector and one goal number
C2_PageCompleteness ==
    PagesBuilt =>
        \A p \in 1..Len(pages) :
            /\ Len(pages[p]) = 4
            /\ \A i \in 1..Len(pages[p]) : DimOf(pages[p][i]) \in CanonicalDims
            /\ \A i, j \in 1..Len(pages[p]) :
                  /\ i # j => DimOf(pages[p][i]) # DimOf(pages[p][j])
                  /\ SectorOf(pages[p][i]) = SectorOf(pages[p][j])
                  /\ GoalOf(pages[p][i]) = GoalOf(pages[p][j])

\* a page built from the stored list next to a goal that lacks a dimension:
\* the page's rows spell their sector differently, the other goal has none
C2_Witness ==
    /\ pc = "rawpages"
    /\ Len(pages) = 1
    /\ \E i, j \in 1..4 : pages[1][i].sector # pages[1][j].sector
    /\ \E i \in 1..Len(BuildInput) : GoalOf(BuildInput[i]) # GoalOf(pages[1][1])

sectorRank(s) == CHOOSE i \in 1..Len(SECTOR_ORDER) : SECTOR_ORDER[i] = s

\* a page exists for (sector, goal g)
HasPage(sector, g) ==
    \E p \in 1..Len(pages) :
        SectorOf(pages[p][1]) = sector /\ GoalOf(pages[p][1]) = JNum(g)

\* the input holds a row of (sector, goal g) for canonical dimension d
HasRow(sector, g, d) ==
    \E i \in 1..Len(BuildInput) :
        /\ SectorOf(BuildInput[i]) = sector
        /\ GoalOf(BuildInput[i]) = JNum(g)
        /\ DimOf(BuildInput[i]) = JStr(DIMENSIONS[d])

\* C4: a page is emitted for (sector, goal), sector active and goal in 1..17,
\* if and only if the input holds a row of that sector and goal for each of
\* the 4 canonical dimensions
C4_PageIffAllFour ==
    PagesBuilt =>
        \A k \in 1..Len(activeSectors) : \A g \in 1..17 :
            HasPage(activeSectors[k], g)
                <=> \A d \in 1..4 : HasRow(activeSectors[k], g, d)

\* two rows of one canonical (sector, goal, dimension)
SameKey(q1, q2) ==
    /\ SectorOf(q1) = SectorOf(q2)
    /\ GoalOf(q1) = GoalOf(q2)
    /\ DimOf(q1) = DimOf(q2)
    /\ DimOf(q1) # JNull

\* rows[i] is the first row of its key and rows[j] a later one, scored otherwise
Duplicates(i, j) ==
    /\ i < j
    /\ SameKey(rows[i], rows[j])
    /\ \A h \in 1..(i - 1) : ~SameKey(rows[h], rows[i])
    /\ rows[i].score # rows[j].score

\* C5: of two rows with one (sector, goal, dimension) and different scores the
\* page builder keeps the first and never the second, while makeCells counts
\* both in the cell
C5_FirstWinsCellsCountBoth ==
    /\ pc = "sanitized" =>
          \A i, j \in 1..Len(rows) : Duplicates(i, j) =>
              LET kept == SelectSeq(questions, LAMBDA q : SameKey(q, rows[i]))
              IN Len(kept) = 1 /\ kept[1].score = rows[i].score
    /\ pc = "pages" =>
          \A i, j \in 1..Len(rows) : Duplicates(i, j) =>
              \A p \in 1..Len(pages) : \A k \in 1..Len(pages[p]) :
                  SameKey(pages[p][k], rows[i]) => pages[p][k].score = rows[i].score
    /\ pc = "cells" =>
          \A i, j \in 1..Len(rows) :
              (/\ Duplicates(i, j)
               /\ VizCanonicalSector(rows[i].sector) = JStr(sectorArg)
               /\ VizCanonicalSector(rows[j].sector) = JStr(sectorArg)
               /\ IsFinite(RowScore(rows[i])) /\ IsFinite(RowScore(rows[j]))
               /\ \E g \in 1..17 : GoalOf(rows[i]) = JNum(g))
              => \E c \in 1..Len(cells) :
                    /\ JNum(cells[c].sdg) = GoalOf(rows[i])
                    /\ JStr(cells[c].dim) = DimOf(rows[i])
                    /\ cells[c].count >= 2
                    /\ \E a, b \in 1..Len(cells[c].items) :
                          /\ a < b
                          /\ cells[c].items[a] = rows[i]
                          /\ cells[c].items[b] = rows[j]

\* C6: the pages are strictly increasing in (sector rank, goal number), the
\* rank being the position in Textiles, Fertilizers, Packaging, whatever the
\* order of activeSectors and of the rows
C6_PageOrder ==
    PagesBuilt =>
        \A p, q \in 1..Len(pages) : p < q =>
            LET sp == sectorRank(SectorOf(pages[p][1]))
                sq == sectorRank(SectorOf(pages[q][1]))
            IN \/ sp < sq
               \/ sp = sq /\ GoalOf(pages[p][1]).v < GoalOf(pages[q][1]).v

\* three pages, built for Packaging before Textiles, from rows of goal 2 first
C6_Witness ==
    /\ PagesBuilt
    /\ Len(pages) = 3
    /\ activeSectors[1] = S_Packaging
    /\ GoalOf(rows[1]) = JNum(2)
    /\ SectorOf(pages[1][1]) = S_Textiles
    /\ SectorOf(pages[3][1]) = S_Packaging

\* C7: the 4 rows of a page stand in the order Economic, Circular,
\* Environmental, Social, the order of DIMENSIONS the aggregator emits cells in
C7_PageDimOrder ==
    PagesBuilt =>
        \A p \in 1..Len(pages) : \A k \in 1..Len(pages[p]) :
            k <= 4 => DimOf(pages[p][k]) = JStr(DIMENSIONS[k])

\* ------------------------------------------------------------------------
\* Properties of the row normalizer
\* ------------------------------------------------------------------------
Normalized == npc \in {"once", "twice"}

\* C8: normalizeRow is idempotent, field by field
C8_Idempotent ==
    npc = "twice" =>
        /\ twice.sdg_number = once.sdg_number
        /\ twice.sustainability_dimension = once.sustainability_dimension
        /\ twice.sector = once.sector
        /\ twice.score = once.score
        /\ \A f \in MetaFields : twice.meta[f] = once.meta[f]

\* a row whose goal, score, dimension, sector and metadata all changed in
\* the first pass, normalized a second time
C8_Witness ==
    /\ npc = "twice"
    /\ raw.sdg_number = JStr(<<"S","D","G"," ","2","5">>)
    /\ once.sdg_number = JNum(17)
    /\ raw.score = JNum(-1)
    /\ once.score = JNum(0)
    /\ raw.sustainability_dimension = JStr(S_Economic)
    /\ raw.sector = JUndef
    /\ raw.meta["kpi"] = JUndef
    /\ twice = once

ClampTenths(lo, hi, v) == IF v < lo THEN lo ELSE IF v > hi THEN hi ELSE v

HasDigit(cs) == \E i \in 1..Len(cs) : IsDigit(cs[i])

\* C9: a finite raw score s becomes min(5, max(0, s)); a numeric goal n becomes
\* n clamped to 1..17; a non-numeric string goal becomes its first run of
\* digits clamped to 1..17
C9_Clamping ==
    Normalized =>
        /\ raw.score.t = "num" =>
              once.score = JTenths(ClampTenths(0, 50, raw.score.v))
        /\ raw.sdg_number.t = "num" =>
              once.sdg_number = JTenths(ClampTenths(10, 170, raw.sdg_number.v))
        /\ (/\ raw.sdg_number.t = "str"
            /\ NumberOf(raw.sdg_number) = JNaN
            /\ HasDigit(raw.sdg_number.s)) =>
              once.sdg_number =
                  JTenths(ClampTenths(10, 170,
                      10 * DigitsValue(FirstDigitRun(raw.sdg_number.s).s)))

\* a goal that is missing, not a number or a string without a digit
GoalUnparsable(x) ==
    \/ IsNullish(x)
    \/ x.t = "nan"
    \/ x.t = "str" /\ ~HasDigit(x.s)

\* a score that is missing, not a number or a string that is empty or no
\* numeric literal
ScoreUnparsable(x) ==
    \/ IsNullish(x)
    \/ x.t = "nan"
    \/ x.t = "str" /\ (trim(x.s) = <<>> \/ NumberOf(x) = JNaN)

\* C10: normalizeRow returns null, never a number, for a goal that is missing,
\* non-numeric or unparsable and for a score that is missing or non-numeric
C10_NullForUnparsable ==
    Normalized =>
        /\ GoalUnparsable(raw.sdg_number) => once.sdg_number = JNull
        /\ ScoreUnparsable(raw.score) => once.score = JNull

\* C11: every row normalizeRow returns has a goal that is null or an integer
\* in 1..17, a dimension that is null or one of the 4 canonical strings, and
\* a score that is null or an integer in 0..5
C11_Schema ==
    Normalized =>
        /\ once.sdg_number \in {JNull} \cup { JNum(g) : g \in 1..17 }
        /\ once.sustainability_dimension \in {JNull} \cup CanonicalDims
        /\ once.score \in {JNull} \cup { JNum(k) : k \in 0..5 }

\* ------------------------------------------------------------------------
\* Properties of the canonicalization helpers
\* ------------------------------------------------------------------------
\* the label is a string whose lower-cased form starts with p
LowerStartsWith(x, p) ==
    /\ x.t = "str"
    /\ Len(x.s) >= Len(p)
    /\ \A i \in 1..Len(p) : LowerChar(x.s[i]) = p[i]

\* the dimension a label stands for: by prefix, null otherwise
DimByPrefix(x) ==
    IF LowerStartsWith(x, <<"e","c","o","n">>) THEN JStr(S_Economic \o S_Performance)
    ELSE IF LowerStartsWith(x, <<"c","i","r","c">>) THEN JStr(S_Circular \o S_Performance)
    ELSE IF LowerStartsWith(x, <<"e","n","v">>) THEN JStr(S_Environmental \o S_Performance)
    ELSE IF LowerStartsWith(x, <<"s","o","c">>) THEN JStr(S_Social \o S_Performance)
    ELSE JNull

\* C12: a label whose lower-cased form starts with econ, circ, env or soc is
\* mapped to the canonical dimension of that prefix, so Economic, economic
\* performance and ECONOMIC all give Economic Performance; every other
\* label, an empty or missing one included, is mapped to null
C12_DimByPrefix ==
    cpc = "dim" =>
        /\ canon.vizDim = DimByPrefix(label)
        /\ canon.rowDim = DimByPrefix(label)
        /\ label \in { JStr(S_Economic), JStr(toLowerCase(S_Economic \o S_Performance)),
                       JStr(<<"E","C","O","N","O","M","I","C">>) }
              => canon.vizDim = JStr(S_Economic \o S_Performance)
        /\ label \in { JNull, JUndef, JStr(<<>>) } => canon.vizDim = JNull

\* the label ECONOMIC was canonicalized by both helpers
C12_Witness ==
    /\ cpc = "dim"
    /\ label = JStr(<<"E","C","O","N","O","M","I","C">>)
    /\ canon.vizDim = JStr(DIMENSIONS[1])
    /\ canon.rowDim = JStr(DIMENSIONS[1])

\* the sector an alias stands for, undefined for a label that is no alias
SectorByAlias(x) ==
    LET k == IF x.t = "str" THEN [i \in 1..Len(trim(x.s)) |-> LowerChar(trim(x.s)[i])] ELSE <<>>
    IN IF k \in { <<"t","e","x","t","i","l","e">>, <<"t","e","x","t","i","l","e","s">> }
       THEN JStr(S_Textiles)
       ELSE IF k \in { <<"f","e","r","t","i","l","i","z","e","r">>,
                       <<"f","e","r","t","i","l","i","z","e","r","s">> }
       THEN JStr(S_Fertilizers)
       ELSE IF k = <<"p","a","c","k","a","g","i","n","g">> THEN JStr(S_Packaging)
       ELSE JUndef

\* the label is missing or blank
EmptyLabel(x) == x.t # "str" \/ trim(x.s) = <<>>

\* out is what the claimed canonicalization gives for the label x with the
\* fallback fb: the alias's sector, the fallback for a missing or blank
\* label, the label itself (as given, or trimmed) otherwise
SectorAsClaimed(x, fb, out) ==
    IF SectorByAlias(x) # JUndef THEN out = SectorByAlias(x)
    ELSE IF EmptyLabel(x) THEN out = fb
    ELSE out \in { x, JStr(trim(x.s)) }

\* C13: sector canonicalization maps exactly the aliases textile, textiles,
\* fertilizer, fertilizers and packaging (lower-cased, trimmed) to Textiles,
\* Fertilizers and Packaging, returns any other non-empty label unchanged and
\* replaces an empty or missing label by the fallback sector
C13_SectorByAlias ==
    cpc = "sector" =>
        /\ SectorAsClaimed(label, JStr(S_General), canon.formSector)
        /\ SectorAsClaimed(label, JStr(S_General), canon.vizSector)
        /\ label.t = "str" => SectorAsClaimed(label, sectorLabel, canon.keySector)
        /\ SectorAsClaimed(label, sectorLabel, canon.rowSector)

\* ------------------------------------------------------------------------
\* Properties of the visualization component
\* ------------------------------------------------------------------------
Rendered == pc \in {"mounted", "drawn"}

\* the row has a goal in 1..17 and a known dimension
Bucketable(r) ==
    /\ \E g \in 1..17 : RowSdg(r) = JNum(g)
    /\ DimOf(r) \in CanonicalDims

\* the cells that hold the row among their items
CellsHolding(r) ==
    { k \in 1..Len(cells) : \E j \in 1..Len(cells[k].items) : cells[k].items[j] = r }

\* C14: makeCells aggregates a row exactly when the row's sector and the
\* sector argument are equal after canonicalization of both, so the argument
\* textiles selects the rows that Textiles selects
C14_SectorFilter ==
    Rendered =>
        \A i \in 1..Len(rows) : Bucketable(rows[i]) =>
            (CellsHolding(rows[i]) # {}
                <=> VizCanonicalSector(rows[i].sector) = VizCanonicalSector(JStr(sectorArg)))

\* the last row of the input has no finite score, matches the sector argument
\* and has a known goal and dimension
LastRowUnscored ==
    /\ rows # <<>>
    /\ \/ IsNullish(rows[Len(rows)].score)
       \/ NumberOf(rows[Len(rows)].score) = JNaN
    /\ VizCanonicalSector(rows[Len(rows)].sector) = JStr(sectorArg)
    /\ Bucketable(rows[Len(rows)])

\* C15: a row without a finite score that matches the sector and has a known
\* goal and dimension is appended to the items of its cell and changes no
\* cell's score or count: the cells of the input with the row are those of
\* the input without it, but for that one item
C15_UnscoredRowNeutral ==
    (pc = "mounted" /\ LastRowUnscored) =>
        LET r == rows[Len(rows)]
            before == makeCells(SubSeq(rows, 1, Len(rows) - 1), JStr(sectorArg))
        IN \A k \in 1..Len(cells) :
              /\ cells[k].score = before[k].score
              /\ cells[k].count = before[k].count
              /\ cells[k].items =
                    IF JNum(cells[k].sdg) = RowSdg(r) /\ JStr(cells[k].dim) = DimOf(r)
                    THEN Append(before[k].items, r)
                    ELSE before[k].items

\* an unscored row was added to a cell that has scored rows: the cell holds
\* one item more than it counts
C15_Witness ==
    /\ pc = "mounted"
    /\ LastRowUnscored
    /\ \E k \in 1..Len(cells) :
          /\ cells[k].count >= 1
          /\ cells[k].score >= 1
          /\ Len(cells[k].items) = cells[k].count + 1
          /\ cells[k].items[Len(cells[k].items)] = rows[Len(rows)]

\* the rows of the input that fall into cell k
RowsOfCell(k) ==
    SelectSeq(rows, LAMBDA r :
        /\ VizCanonicalSector(r.sector) = JStr(sectorArg)
        /\ RowSdg(r) = JNum(cells[k].sdg)
        /\ DimOf(r) = JStr(cells[k].dim))

\* C16: a cell that received no scored row, because it received no row or
\* only rows without a score, has score 0, count 0 and an empty item list
C16_EmptyCell ==
    pc = "mounted" =>
        \A k \in 1..Len(cells) :
            (\A i \in 1..Len(RowsOfCell(k)) : ~IsFinite(RowScore(RowsOfCell(k)[i])))
                => /\ cells[k].score = 0
                   /\ cells[k].count = 0
                   /\ cells[k].items = <<>>

\* the sum of the scores of the cells of dimension d for the goals 1..g
RECURSIVE DimSumTo(_, _)
DimSumTo(d, g) ==
    IF g = 0 THEN 0 ELSE cells[(g - 1) * 4 + d].score + DimSumTo(d, g - 1)

\* C17: for each dimension the summary total is the sum of the dimension's
\* 17 cell scores and lies in 0..85, and the percentage
\* round(total / 85 * 100) lies in 0..100, whatever rows the component is given
C17_TotalsInRange ==
    Rendered =>
        \A d \in 1..4 :
            /\ dimensionTotals[d] = DimSumTo(d, 17)
            /\ dimensionTotals[d] \in 0..85
            /\ 2 * 85 * percentages[d] - 200 * dimensionTotals[d] \in (-85)..85
            /\ percentages[d] \in 0..100

\* the total of goal g: the sum of the scores of its 4 cells
GoalTotal(g) ==
    cells[4 * (g - 1) + 1].score + cells[4 * (g - 1) + 2].score
        + cells[4 * (g - 1) + 3].score + cells[4 * (g - 1) + 4].score

\* the goals of a list of the summary
GoalsIn(list) == { list[i].sdg : i \in 1..Len(list) }

\* C18: the top list holds 2 goals in descending order of total, each with a
\* total at least that of every goal outside the list; the bottom list holds
\* 2 goals, the lowest first, each with a total at most that of every goal
\* outside it; no goal is in both lists
C18_TopBottom ==
    Rendered =>
        /\ Len(topSDGs) = 2 /\ Len(bottomSDGs) = 2
        /\ Cardinality(GoalsIn(topSDGs)) = 2 /\ Cardinality(GoalsIn(bottomSDGs)) = 2
        /\ GoalsIn(topSDGs) \cup GoalsIn(bottomSDGs) \subseteq 1..17
        /\ \A i \in 1..2 : /\ topSDGs[i].score = GoalTotal(topSDGs[i].sdg)
                            /\ bottomSDGs[i].score = GoalTotal(bottomSDGs[i].sdg)
        /\ topSDGs[1].score >= topSDGs[2].score
        /\ bottomSDGs[1].score <= bottomSDGs[2].score
        /\ \A g \in (1..17) \ GoalsIn(topSDGs) :
              \A i \in 1..2 : GoalTotal(g) <= topSDGs[i].score
        /\ \A g \in (1..17) \ GoalsIn(bottomSDGs) :
              \A i \in 1..2 : GoalTotal(g) >= bottomSDGs[i].score
        /\ GoalsIn(topSDGs) \cap GoalsIn(bottomSDGs) = {}

\* a summary with one best and one worst goal and ties between the others
C18_Witness ==
    /\ Rendered
    /\ topSDGs[1].score > topSDGs[2].score
    /\ bottomSDGs[1].score < bottomSDGs[2].score
    /\ \E g, h \in 1..17 : g # h /\ GoalTotal(g) = GoalTotal(h)

\* the ring segments drawn for cell k
SegmentsOf(k) ==
    { p \in 1..Len(geometry) :
        geometry[p].sdg = cells[k].sdg /\ geometry[p].dim = cells[k].dim }

\* the levels of cell k drawn in a colour other than the empty one
FilledLevels(k) == { geometry[p].level : p \in { q \in SegmentsOf(k) : geometry[q].fill # EmptyFill } }

\* C19: for every cell the levels drawn filled, in the colour of the cell's
\* dimension, are exactly the levels 1..score, so their number is the cell's
\* score and a cell with score 0 has none; every other level is drawn in the
\* empty style
C19_FilledLevels ==
    pc = "drawn" =>
        \A k \in 1..Len(cells) :
            /\ FilledLevels(k) = 1..cells[k].score
            /\ Cardinality(FilledLevels(k)) = cells[k].score
            /\ \A p \in SegmentsOf(k) :
                  geometry[p].fill \in { EmptyFill, DimColors[(geometry[p].slot % 4) + 1] }

\* C20: while the width or the height of the size is 0 the layout has drawn
\* nothing; once the resize observer has delivered a size, the size is valid
\* and the layout has drawn the 5 ring segments of each of the 68 cells, with
\* radii that grow outwards from the inner radius
C20_ZeroSizeNoGeometry ==
    /\ (size.w = 0 \/ size.h = 0) => geometry = <<>>
    /\ pc = "mounted" => size.w = 0 /\ size.h = 0
    /\ pc = "drawn" =>
          /\ size.w \in 700..1300 /\ size.h = size.w
          /\ Len(cells) = 68
          /\ Len(geometry) = 68 * 5
          /\ \A k \in 1..Len(cells) :
                { geometry[p].level : p \in SegmentsOf(k) } = 1..5
          /\ \A p \in 1..Len(geometry) :
                /\ geometry[p].levelInnerRadius >= 1000 * 120
                /\ geometry[p].levelInnerRadius < geometry[p].levelOuterRadius
                /\ 2 * geometry[p].levelOuterRadius <= 1000 * size.w

\* the component was mounted with size 0 and then drew at the smallest size,
\* the observer having reported a content width of 0
C20_Witness ==
    /\ pc = "drawn"
    /\ size = [w |-> 700, h |-> 700]
    /\ rows # <<>>
    /\ Len(geometry) = 340
    /\ \E p \in 1..Len(geometry) : geometry[p].achieved

\* ------------------------------------------------------------------------
\* Direct calls of makeCells, with arguments the types do not rule out at
\* run time
\* ------------------------------------------------------------------------
\* a JavaScript array with the elements xs
JArray(xs) == [t |-> "array", v |-> xs]

\* a row whose sector is missing
SectorlessRow == [Row(S_Textiles, JNum(1), S_Economic, JNum(3)) EXCEPT !.sector = JNull]

\* the rows arguments: row lists, and values that are no list
EntryRows ==
    { JArray(base \o ex) :
        base \in { <<>>, VizSparseRows, VizFullRows },
        ex \in SeqsUpTo(VizExtraPool \cup {SectorlessRow}, MaxEntryExtra) }
    \cup { JUndef, JNull, JNum(5) }

\* the sector arguments: absent ones and a sector
EntrySectors == { JUndef, JNull, JStr(<<>>), JStr(S_Textiles) }

\* a call makeCells(rowsArg, sector): rows.filter throws a TypeError when
\* rows is no array; nothing else in the function throws
callMakeCells(rowsArg, sector) ==
    IF rowsArg.t = "array"
    THEN [kind |-> "returned", value |-> makeCells(rowsArg.v, sector)]
    ELSE [kind |-> "thrown", value |-> "TypeError"]

InitEntry ==
    /\ entry \in [rows : EntryRows, sector : EntrySectors]
    /\ outcome = [kind |-> "none"]
    /\ AggIdle
    /\ NormIdle
    /\ CanonIdle
    /\ VizIdle
    /\ FormIdle
    /\ UploadIdle

CallMakeCells ==
    /\ outcome.kind = "none"
    /\ outcome' = callMakeCells(entry.rows, entry.sector)
    /\ UNCHANGED entry
    /\ UNCHANGED <<aggVars, normVars, canonVars, vizVars, formVars, uploadVars>>

NextEntry == CallMakeCells

SpecEntry == InitEntry /\ [][NextEntry]_vars

\* the sector argument is undefined, null or the empty string
AbsentSector == IsNullish(entry.sector) \/ entry.sector = JStr(<<>>)

\* C22: when the rows argument of makeCells is not a list or the sector
\* argument is absent, the call ends in an error and never returns a normal
\* 68-cell result
C22_UnrecoverableInputIsError ==
    (outcome.kind # "none" /\ (entry.rows.t # "array" \/ AbsentSector)) =>
        ~(outcome.kind = "returned" /\ Len(outcome.value) = NumGoals * Len(DIMENSIONS))

\* ------------------------------------------------------------------------
\* Properties of the renders of the visualization component
\* ------------------------------------------------------------------------
\* the props of the component are the ones of the previous render
SameProps == rows' = rows /\ sectorArg' = sectorArg

\* C21: geometry is recomputed exactly when the cell array changes or the
\* drawing size changes. In every render of the mounted component the layout
\* effect runs iff the cells memo ran or width or height changed; a render
\* with the same props (a resize, a change of the download flag) leaves the
\* cell array and the summary totals unrecomputed, and one that also leaves
\* the clamped size as it was recomputes nothing
C21_RecomputeExactly ==
    [][ /\ ("layout" \in ran') <=> ("cells" \in ran' \/ size'.w # size.w \/ size'.h # size.h)
        /\ (pc # "props" /\ SameProps) =>
              /\ ran' \subseteq {"layout"}
              /\ cells' = cells
              /\ dimensionTotals' = dimensionTotals
              /\ sdgTotals' = sdgTotals
        /\ (pc # "props" /\ SameProps /\ size' = size) =>
              /\ ran' = {}
              /\ geometry' = geometry
        /\ (pc # "props" /\ isDownloading' # isDownloading) => ran' = {} ]_vars

\* a drawn chart whose download flag was set: that render recomputed nothing
C21_Witness ==
    /\ pc = "drawn"
    /\ isDownloading
    /\ ran = {}
    /\ geometry # <<>>
    /\ \E k \in 1..Len(cells) : cells[k].count > 0

\* ------------------------------------------------------------------------
\* Properties of the cell aggregator: counts and items
\* ------------------------------------------------------------------------
\* the row's goal number is an integer in 1..17
GoalInRange(r) ==
    r.sdg_number.t = "num" /\ \E g \in 1..17 : r.sdg_number = JNum(g)

\* the row's dimension canonicalizes to one of the 4 dimensions
DimKnown(r) ==
    \E d \in 1..Len(DIMENSIONS) :
        VizCanonicalDim(r.sustainability_dimension) = JStr(DIMENSIONS[d])

\* the row counts: its canonical sector is the sector argument, its dimension
\* is known, its goal is in range and its score is finite
Counted(r) ==
    /\ VizCanonicalSector(r.sector) = JStr(sectorArg)
    /\ DimKnown(r)
    /\ GoalInRange(r)
    /\ ~IsNullish(r.score)
    /\ IsFinite(NumberOf(r.score))

\* the cells whose items hold the row
CellsWith(r) ==
    { k \in 1..Len(cells) : \E j \in 1..Len(cells[k].items) : cells[k].items[j] = r }

\* the sum of count over the cells from k on
RECURSIVE CountFrom(_)
CountFrom(k) == IF k > Len(cells) THEN 0 ELSE cells[k].count + CountFrom(k + 1)

\* C29: the sum of count over the 68 cells of makeCells is the number of
\* input rows whose canonical sector is the sector argument, whose dimension
\* is one of the 4, whose goal is an integer in 1..17 and whose score is
\* finite; each such row is in the items of exactly one cell, the cell of its
\* goal and dimension, and a row with an unknown dimension or a goal outside
\* 1..17 is in the items of no cell
C29_CountsAndItems ==
    pc = "cells" =>
        /\ CountFrom(1) = Cardinality({ i \in 1..Len(rows) : Counted(rows[i]) })
        /\ \A i \in 1..Len(rows) :
              /\ Counted(rows[i]) =>
                    \E k \in 1..Len(cells) :
                        /\ CellsWith(rows[i]) = {k}
                        /\ JNum(cells[k].sdg) = rows[i].sdg_number
                        /\ JStr(cells[k].dim) = VizCanonicalDim(rows[i].sustainability_dimension)
              /\ (~DimKnown(rows[i]) \/ ~GoalInRange(rows[i])) => CellsWith(rows[i]) = {}

\* cells of a list with counted rows, a row of the sector with goal 18 and a
\* row of the sector with an unknown dimension
C29_Witness ==
    /\ pc = "cells"
    /\ CountFrom(1) >= 2
    /\ \E i \in 1..Len(rows) :
          /\ VizCanonicalSector(rows[i].sector) = JStr(sectorArg)
          /\ DimKnown(rows[i])
          /\ ~GoalInRange(rows[i])
    /\ \E i \in 1..Len(rows) :
          /\ VizCanonicalSector(rows[i].sector) = JStr(sectorArg)
          /\ ~DimKnown(rows[i])

\* ------------------------------------------------------------------------
\* FormPage.tsx: the questionnaire page
\* ------------------------------------------------------------------------
S_AllSectors == <<"A","l","l"," ","S","e","c","t","o","r","s">>

S_Multiple == <<"M","u","l","t","i","p","l","e">>

\* an initial score outside the scale
InitialScoreOffScale == JNum(7)

\* init[makeKey(q)] = 3: the score every question starts with
InitialScore == JNum(3)

\* the whole selection is kept
keepAllSectors(next) == next

\* next.slice(-2): the most recent two sectors
keepLastTwo(next) == SliceLast(next, 2)

\* activeSectors of FormPage
activeSectorsOf(selSector, selSectors) ==
    IF selSector = S_AllSectors THEN SECTOR_ORDER
    ELSE IF Len(selSectors) > 0
         THEN [i \in 1..Len(selSectors) |-> FormCanonicalSector(JStr(selSectors[i]))]
    ELSE IF selSector # <<>> THEN << FormCanonicalSector(JStr(selSector)) >>
    ELSE SECTOR_ORDER

\* the sector pills: "All Sectors", SECTOR_ORDER and the sectors of the questions
sectors(ctxQuestions) ==
    {S_AllSectors} \cup { SECTOR_ORDER[i] : i \in 1..Len(SECTOR_ORDER) }
    \cup { FormCanonicalSector(ctxQuestions[i].sector) :
             i \in { j \in 1..Len(ctxQuestions) : ~Falsy(ctxQuestions[j].sector) } }

\* the selection and the label onSectorClick(sec) sets
onSectorClick(prev, sec) ==
    IF sec = S_AllSectors THEN [label |-> S_AllSectors, selected |-> SECTOR_ORDER]
    ELSE LET s == FormCanonicalSector(JStr(sec))
             toggled == IF \E i \in 1..Len(prev) : prev[i] = s
                        THEN SelectSeq(prev, LAMBDA x : x # s)
                        ELSE Append(prev, s)
             next == IF Len(toggled) > 2 THEN keepLastTwo(toggled) ELSE toggled
         IN IF Len(next) = 0 THEN [label |-> S_AllSectors, selected |-> SECTOR_ORDER]
            ELSE [label |-> IF Len(next) = 1 THEN next[1] ELSE S_Multiple,
                  selected |-> next]

\* scoresByKey[key], undefined for a key that has no score
ScoreAt(scores, key) == IF key \in DOMAIN scores THEN scores[key] ELSE JUndef

\* Math.max(0, Math.min(5, Number(score)))
bounded(score) == Clamp(0, 5, NumberOf(score))

\* pageComplete of FormPage
pageComplete(currentPage, scores) ==
    /\ Len(currentPage) = 4
    /\ \A i \in 1..Len(currentPage) : IsFinite(ScoreAt(scores, makeKey(currentPage[i])))

\* allComplete of FormPage
allComplete(pgs, scores) ==
    /\ Len(pgs) > 0
    /\ \A p \in 1..Len(pgs) : \A i \in 1..Len(pgs[p]) :
          IsFinite(ScoreAt(scores, makeKey(pgs[p][i])))

\* pages.flat()
RECURSIVE Flat(_)
Flat(pgs) == IF pgs = <<>> THEN <<>> ELSE Head(pgs) \o Flat(Tail(pgs))

\* the responses in the opposite order
responsesReversed(activeQuestions, scores) ==
    [i \in 1..Len(activeQuestions) |->
        [question_id |-> makeKey(activeQuestions[Len(activeQuestions) + 1 - i]),
         score |-> ScoreAt(scores, makeKey(activeQuestions[Len(activeQuestions) + 1 - i]))]]

\* responsesArray of handleSubmitAnswers
responsesArray(activeQuestions, scores) ==
    [i \in 1..Len(activeQuestions) |->
        [question_id |-> makeKey(activeQuestions[i]),
         score |-> IF IsFinite(ScoreAt(scores, makeKey(activeQuestions[i])))
                   THEN ScoreAt(scores, makeKey(activeQuestions[i]))
                   ELSE JNum(3)]]

\* questionsWithCompositeId of handleSubmitAnswers
questionsWithCompositeId(activeQuestions) ==
    [i \in 1..Len(activeQuestions) |->
        [f \in (DOMAIN activeQuestions[i]) \cup {"id"} |->
            IF f = "id" THEN makeKey(activeQuestions[i]) ELSE activeQuestions[i][f]]]

\* the sector field of the request body
requestSector(selSector, active, sector) ==
    IF selSector = S_AllSectors THEN S_AllSectors
    ELSE IF Len(active) > 1 THEN active[1] \o <<" ","+"," ">> \o active[2]
    ELSE IF Len(active) = 1 /\ active[1] # <<>> THEN active[1]
    ELSE IF sector # <<>> THEN sector ELSE S_General

\* ------------------------------------------------------------------------
\* Inputs of the questionnaire page: the questions the template route returns
\* ------------------------------------------------------------------------
FormExtraPool ==
    { Row(<<"t","e","x","t","i","l","e">>, JNum(1), S_Circular, JNum(4)),
      Row(S_General, JNum(1), S_Social, JNum(2)),
      Row(S_Textiles, JNum(3), S_Economic \o S_Performance, JNum(2)) }

FormInputs ==
    { base \o ex :
        base \in { GroupRows(S_Textiles, 1, 0) \o GroupRows(S_Fertilizers, 1, 0)
                     \o GroupRows(S_Packaging, 1, 0),
                   GroupRows(S_Textiles, 1, 0) \o GroupRows(S_Textiles, 2, 0)
                     \o GroupRows(S_Fertilizers, 1, 2) \o GroupRows(S_Packaging, 1, 0) },
        ex \in SeqsUpTo(FormExtraPool, MaxFormExtra) }
    \cup { <<>> }

\* the values of the score radios the model selects
ScoreInputs == {0, 5}

\* the keys whose score is not the initial one
Rescored(scores) == { k \in DOMAIN scores : scores[k] # InitialScore }

\* ------------------------------------------------------------------------
\* The questionnaire page: state and handlers
\* ------------------------------------------------------------------------
InitForm ==
    /\ rows \in FormInputs
    /\ questions = <<>>
    /\ activeSectors = <<>>
    /\ pages = <<>>
    /\ sectorArg = <<>>
    /\ cells = <<>>
    /\ pc = "loading"
    /\ selectedSector = S_Textiles
    /\ selectedSectors = SECTOR_ORDER
    /\ pageIdx = 0
    /\ scoresByKey = <<>>
    /\ request = [sent |-> FALSE]
    /\ NormIdle
    /\ CanonIdle
    /\ VizIdle
    /\ EntryIdle
    /\ UploadIdle

\* the render that follows a handler which left the page index at idx:
\* activeSectors and pages are recomputed; currentPage = pages[pageIdx] is
\* undefined when the index is past the last page and reading its length
\* throws; otherwise the effect with the dependencies [activeSectors.length,
\* totalPages] sets the index to 0 when one of them changed
FormRender(idx) ==
    /\ activeSectors' = activeSectorsOf(selectedSector', selectedSectors')
    /\ \E shown \in { filtered(questions', activeSectors') } :
          pages' = buildPages(shown, activeSectors')
    /\ IF Len(pages') > 0 /\ idx >= Len(pages')
       THEN /\ pc' = "crashed"
            /\ pageIdx' = idx
       ELSE /\ pc' = "form"
            /\ pageIdx' = IF depsChanged(<<Len(activeSectors), Len(pages)>>,
                                         <<Len(activeSectors'), Len(pages')>>)
                           THEN 0 ELSE idx

\* fetchQ: the template is fetched; on success the context questions become
\* the sanitized list and every question gets the initial score, on failure
\* (also an empty list) the questions are emptied
FetchQ(ok) ==
    /\ pc = "loading"
    /\ IF ok /\ rows # <<>>
       THEN /\ questions' = sanitizeQuestions(rows)
            /\ scoresByKey' = [k \in { makeKey(questions'[i]) : i \in 1..Len(questions') }
                                 |-> InitialScore]
       ELSE /\ questions' = <<>>
            /\ UNCHANGED scoresByKey
    /\ ctxSector' = S_General
    /\ selectedSector' = S_AllSectors
    /\ selectedSectors' = SECTOR_ORDER
    /\ FormRender(pageIdx)
    /\ UNCHANGED <<rows, sectorArg, cells, request>>
    /\ UNCHANGED <<localStorage, sessionStorage, file, isBusy, error, inflight, clock>>
    /\ UNCHANGED <<normVars, canonVars, vizVars, entryVars>>

\* onSectorClick(sec) on one of the sector pills
SectorClick(sec) ==
    /\ pc = "form"
    /\ sec \in sectors(questions)
    /\ selectedSector' = onSectorClick(selectedSectors, sec).label
    /\ selectedSectors' = onSectorClick(selectedSectors, sec).selected
    /\ UNCHANGED questions
    /\ FormRender(pageIdx)
    /\ UNCHANGED <<rows, sectorArg, cells, scoresByKey, request>>
    /\ UNCHANGED <<uploadVars, normVars, canonVars, vizVars, entryVars>>

\* handleScoreSelect(key, score) from a radio of a card of the current page
ScoreSelect(i, score) ==
    /\ pc = "form"
    /\ Len(pages) > 0
    /\ i \in 1..Len(pages[pageIdx + 1])
    /\ scoresByKey' = [scoresByKey EXCEPT ![makeKey(pages[pageIdx + 1][i])] = bounded(JNum(score))]
    /\ Cardinality(Rescored(scoresByKey')) <= MaxRescored
    /\ UNCHANGED <<rows, questions, activeSectors, pages, sectorArg, cells, pc>>
    /\ UNCHANGED <<selectedSector, selectedSectors, pageIdx, request>>
    /\ UNCHANGED <<uploadVars, normVars, canonVars, vizVars, entryVars>>

\* goPrev, from the Previous button of a page
GoPrev ==
    /\ pc = "form"
    /\ Len(pages) > 0
    /\ pageIdx # 0
    /\ pageIdx' = Max2(0, pageIdx - 1)
    /\ UNCHANGED <<rows, questions, activeSectors, pages, sectorArg, cells, pc>>
    /\ UNCHANGED <<selectedSector, selectedSectors, scoresByKey, request>>
    /\ UNCHANGED <<uploadVars, normVars, canonVars, vizVars, entryVars>>

\* goNext, from the Next button, which every page but the last one shows
GoNext ==
    /\ pc = "form"
    /\ Len(pages) > 0
    /\ pageIdx < Len(pages) - 1
    /\ pageIdx' = IF /\ pageIdx < Len(pages) - 1
                      /\ pageComplete(pages[pageIdx + 1], scoresByKey)
                   THEN pageIdx + 1 ELSE pageIdx
    /\ UNCHANGED <<rows, questions, activeSectors, pages, sectorArg, cells, pc>>
    /\ UNCHANGED <<selectedSector, selectedSectors, scoresByKey, request>>
    /\ UNCHANGED <<uploadVars, normVars, canonVars, vizVars, entryVars>>

\* handleSubmitAnswers, from the Submit button of the last page, up to its
\* await: nothing unless allComplete; otherwise the calculate request is sent
SubmitAnswers ==
    /\ pc = "form"
    /\ Len(pages) > 0
    /\ pageIdx >= Len(pages) - 1
    /\ IF ~allComplete(pages, scoresByKey)
       THEN UNCHANGED <<request, pc>>
       ELSE /\ request' = [sent |-> TRUE,
                           responses |-> responsesArray(Flat(pages), scoresByKey),
                           questions |-> questionsWithCompositeId(Flat(pages)),
                           sector |-> requestSector(selectedSector, activeSectors, ctxSector)]
            /\ pc' = "submitting"
    /\ UNCHANGED <<rows, questions, activeSectors, pages, sectorArg, cells>>
    /\ UNCHANGED <<selectedSector, selectedSectors, pageIdx, scoresByKey>>
    /\ UNCHANGED <<uploadVars, normVars, canonVars, vizVars, entryVars>>

\* handleSubmitAnswers after its await: a good answer is stored and the
\* visualization is opened, a bad one sets the error and leaves the page
CalculateResponds(ok) ==
    /\ pc = "submitting"
    /\ request' = [sent |-> FALSE]
    /\ pc' = IF ok THEN "submitted" ELSE "form"
    /\ sessionStorage' = IF ok THEN [sessionStorage EXCEPT !["scorecard"] = JStr(<<"{","}">>)]
                         ELSE sessionStorage
    /\ UNCHANGED <<rows, questions, activeSectors, pages, sectorArg, cells>>
    /\ UNCHANGED <<selectedSector, selectedSectors, pageIdx, scoresByKey>>
    /\ UNCHANGED <<localStorage, ctxSector, file, isBusy, error, inflight, clock>>
    /\ UNCHANGED <<normVars, canonVars, vizVars, entryVars>>

NextForm ==
    \/ \E ok \in BOOLEAN : FetchQ(ok)
    \/ \E sec \in sectors(questions) : SectorClick(sec)
    \/ \E i \in 1..4 : \E score \in ScoreInputs : ScoreSelect(i, score)
    \/ GoPrev
    \/ GoNext
    \/ SubmitAnswers
    \/ \E ok \in BOOLEAN : CalculateResponds(ok)

SpecForm == InitForm /\ [][NextForm]_vars

\* ------------------------------------------------------------------------
\* Properties of the questionnaire page
\* ------------------------------------------------------------------------
\* lower(trim(sector)) | goal | lower(trim(dimension)) of a question
CompositeKey(q) ==
    toLowerCase(trim(q.sector.s)) \o <<"|">> \o StringOf(q.sdg_number) \o <<"|">>
        \o toLowerCase(trim(q.sustainability_dimension.s))

\* C23: in every submission payload the responses and the questions have the
\* same length and order (the order of the pages), each response's
\* question_id is the id of the question at its position, that id is
\* lower(trim(sector)) | goal | lower(trim(dimension)), and the ids are
\* pairwise distinct
C23_PayloadIds ==
    request.sent =>
        /\ Len(request.responses) = Len(request.questions)
        /\ Len(request.questions) = Len(Flat(pages))
        /\ \A i \in 1..Len(request.questions) :
              /\ request.responses[i].question_id = request.questions[i].id
              /\ request.questions[i].id = CompositeKey(request.questions[i])
              /\ request.questions[i].sector = Flat(pages)[i].sector
              /\ request.questions[i].sdg_number = Flat(pages)[i].sdg_number
              /\ request.questions[i].sustainability_dimension
                    = Flat(pages)[i].sustainability_dimension
        /\ \A i, j \in 1..Len(request.questions) :
              i # j => request.questions[i].id # request.questions[j].id

\* a payload of two sectors, of at least two pages
C23_Witness ==
    /\ request.sent
    /\ selectedSector = S_Multiple
    /\ Len(request.responses) >= 8

\* the integer scores of the scale
ScaleScores == { JNum(n) : n \in 0..5 }

\* C24: the calculate request is sent only in a state where every question
\* of every page has a finite score, and every score in the request is an
\* integer in 0..5
C24_CompleteAndOnScale ==
    [][ (request'.sent /\ ~request.sent) =>
          /\ Len(pages) > 0
          /\ \A p \in 1..Len(pages) : \A i \in 1..Len(pages[p]) :
                /\ makeKey(pages[p][i]) \in DOMAIN scoresByKey
                /\ IsFinite(scoresByKey[makeKey(pages[p][i])])
          /\ \A i \in 1..Len(request'.responses) :
                request'.responses[i].score \in ScaleScores ]_vars

\* a request sent from the last of several pages after a score was selected
C24_Witness ==
    /\ request.sent
    /\ pageIdx > 0
    /\ \E i \in 1..Len(request.responses) : request.responses[i].score = JNum(0)
    /\ \E i \in 1..Len(request.responses) : request.responses[i].score = JNum(3)

\* C27: whenever the page list is not empty, the page index is within it at
\* the moment the page is rendered, so the current page is a 4-row page
C27_PageIdxInRange ==
    (pc \in {"form", "submitting", "crashed"} /\ Len(pages) > 0) =>
        /\ 0 <= pageIdx
        /\ pageIdx < Len(pages)
        /\ Len(pages[pageIdx + 1]) = 4

\* the click on the pill sec asks for all sectors: it is the "All Sectors"
\* pill or it deselects the only selected sector
AsksForAll(sec) ==
    \/ sec = S_AllSectors
    \/ /\ selectedSector # S_AllSectors
       /\ selectedSectors = << FormCanonicalSector(JStr(sec)) >>

\* C28: after the initial load and any pill clicks, a label other than "All
\* Sectors" goes with exactly 1 or 2 active sectors; a click on "All
\* Sectors", or one that deselects the last selected sector, gives the label
\* "All Sectors" with all three sectors active
C28_SectorSelection ==
    [][ pc' \in {"form", "crashed"} =>
          /\ selectedSector' # S_AllSectors =>
                /\ Len(activeSectors') \in {1, 2}
                /\ Cardinality({ activeSectors'[i] : i \in 1..Len(activeSectors') })
                      = Len(activeSectors')
          /\ \A sec \in sectors(questions) :
                (AsksForAll(sec) /\ SectorClick(sec)) =>
                    /\ selectedSector' = S_AllSectors
                    /\ activeSectors' = SECTOR_ORDER ]_vars

\* two sectors are selected, the later one first in SECTOR_ORDER: a third
\* click was cut back to the most recent two
C28_Witness ==
    /\ pc = "form"
    /\ selectedSector = S_Multiple
    /\ selectedSectors = << S_Packaging, S_Textiles >>
    /\ activeSectors = selectedSectors

\* ------------------------------------------------------------------------
\* SDGContext.tsx and UploadExcelPage.tsx: the context, the storages and the
\* upload page
\* ------------------------------------------------------------------------
\* s ends with the characters suffix
EndsWith(s, suffix) ==
    /\ Len(s) >= Len(suffix)
    /\ SubSeq(s, Len(s) - Len(suffix) + 1, Len(s)) = suffix

\* isExcelFilename(name): /\.xlsx?$/i on the trimmed name
isExcelFilename(name) ==
    /\ ~Falsy(name)
    /\ \/ EndsWith(toLowerCase(trim(name.s)), <<".","x","l","s">>)
       \/ EndsWith(toLowerCase(trim(name.s)), <<".","x","l","s","x">>)

\* the busy flag is not looked at
blockedWithoutFile(f, busy) == f = JNull

\* isBusy || !file: the Upload button is disabled and handleExcelUpload
\* returns with an error
uploadBlocked(f, busy) == busy \/ f = JNull

\* reset keeps the questions of the context; clearAll empties them
questionsEmptied(qs) == <<>>

questionsAfterReset(qs) == qs

\* the entries of an upload without the name of its file
uploadedEntriesUnnamed(qs, sector, now, name) ==
    [k \in UploadKeys |->
        CASE k = "uploadedQuestions" -> JArray(qs)
          [] k = "uploadedSector" -> IF Falsy(sector) THEN JStr(S_General) ELSE sector
          [] k = "uploadedTimestamp" -> JNum(now)
          [] k = "uploadedFilename" -> JNull]

\* the four localStorage entries a successful upload writes
uploadedEntries(qs, sector, now, name) ==
    [k \in UploadKeys |->
        CASE k = "uploadedQuestions" -> JArray(qs)
          [] k = "uploadedSector" -> IF Falsy(sector) THEN JStr(S_General) ELSE sector
          [] k = "uploadedTimestamp" -> JNum(now)
          [] k = "uploadedFilename" -> name]

\* the message of the error a failed upload throws
messageOf(reply) ==
    IF reply.kind # "unparsable" /\ ~Falsy(reply.detail) THEN reply.detail
    ELSE IF reply.kind = "unparsable"
         THEN JStr(<<"F","a","i","l","e","d"," ","t","o"," ","p","a","r","s","e">>)
    ELSE IF reply.kind = "empty"
         THEN JStr(<<"N","o"," ","q","u","e","s","t","i","o","n","s">>)
    ELSE IF reply.kind = "network"
         THEN JStr(<<"F","a","i","l","e","d"," ","t","o"," ","f","e","t","c","h">>)
    ELSE JStr(<<"U","p","l","o","a","d"," ","f","a","i","l","e","d">>)

\* the files the user selects or drops: name and size in bytes
UploadFiles ==
    { [name |-> JStr(<<"a",".","x","l","s","x">>), size |-> 2048],
      [name |-> JStr(<<"B",".","X","L","S"," ">>), size |-> 4096],
      [name |-> JStr(<<"b","i","g",".","x","l","s">>), size |-> 10 * 1024 * 1024 + 1],
      [name |-> JStr(<<"n",".","t","x","t">>), size |-> 16] }

\* what the upload route answers: a non-OK response, an unparsable body,
\* success = false, no questions, or questions with or without a sector;
\* "network" is a fetch that rejects
UploadReplies ==
    { [kind |-> k, detail |-> d, questions |-> <<>>, sector |-> JUndef] :
        k \in {"notok", "unparsable", "failure", "empty"},
        d \in {JUndef, JStr(<<"b","a","d">>)} }
    \cup { [kind |-> "network", detail |-> JUndef, questions |-> <<>>, sector |-> JUndef] }
    \cup { [kind |-> "ok", detail |-> JUndef, questions |-> GroupRows(S_Textiles, 1, 0),
             sector |-> JStr(S_Textiles)],
           [kind |-> "ok", detail |-> JUndef, questions |-> GroupRows(S_Packaging, 2, 1),
             sector |-> JUndef] }

\* the entries of an upload of an earlier session
PreviousUpload ==
    uploadedEntries(GroupRows(S_Fertilizers, 1, 0), JStr(S_Fertilizers), 0,
                    JStr(<<"o","l","d",".","x","l","s">>))

\* a scorecard of an earlier assessment
PreviousScorecard ==
    [k \in ScorecardKeys |-> JStr(<<"{","}">>)]

InitUpload ==
    /\ localStorage \in { [k \in UploadKeys |-> JNull], PreviousUpload }
    /\ sessionStorage \in { [k \in ScorecardKeys |-> JNull], PreviousScorecard }
    /\ questions = <<>>
    /\ ctxSector = S_Textiles
    /\ selectedSector = S_Textiles
    /\ file = JNull
    /\ isBusy = FALSE
    /\ error = JNull
    /\ inflight = <<>>
    /\ clock = 0
    /\ rows = <<>>
    /\ activeSectors = <<>>
    /\ pages = <<>>
    /\ sectorArg = <<>>
    /\ cells = <<>>
    /\ pc = "upload"
    /\ selectedSectors = <<>>
    /\ pageIdx = 0
    /\ scoresByKey = <<>>
    /\ request = [sent |-> FALSE]
    /\ NormIdle
    /\ CanonIdle
    /\ VizIdle
    /\ EntryIdle

\* handleFileChange(f), from the file input or a drop; the input is disabled
\* while an upload is busy and a drop always carries a file
SelectFile(f) ==
    /\ pc = "upload"
    /\ f = JNull => ~isBusy
    /\ IF f # JNull /\ ~isExcelFilename(f.name)
       THEN /\ file' = JNull
            /\ error' = JStr(<<"n","o","t"," ","E","x","c","e","l">>)
       ELSE /\ file' = f
            /\ error' = JNull
    /\ UNCHANGED <<localStorage, sessionStorage, ctxSector, isBusy, inflight, clock>>
    /\ UNCHANGED <<aggVars, normVars, canonVars, vizVars, entryVars, formVars>>

\* handleExcelUpload up to its await: the size and the name of the file are
\* checked, then the busy flag is set and the request is sent with the file
\* of this render
ClickUpload ==
    /\ pc = "upload"
    /\ ~uploadBlocked(file, isBusy)
    /\ clock + Len(inflight) < MaxUploads
    /\ IF file.size > 10 * 1024 * 1024
       THEN /\ error' = JStr(<<"t","o","o"," ","b","i","g">>)
            /\ UNCHANGED <<isBusy, inflight>>
       ELSE IF ~isExcelFilename(file.name)
       THEN /\ error' = JStr(<<"n","o","t"," ","E","x","c","e","l">>)
            /\ UNCHANGED <<isBusy, inflight>>
       ELSE /\ isBusy' = TRUE
            /\ error' = JNull
            /\ inflight' = Append(inflight, [file |-> file])
    /\ UNCHANGED <<localStorage, sessionStorage, ctxSector, file, clock>>
    /\ UNCHANGED <<aggVars, normVars, canonVars, vizVars, entryVars, formVars>>

\* handleExcelUpload after its await: a good answer replaces the four
\* entries and the questions and sector of the context, any other answer
\* becomes the error; the busy flag is cleared in both cases
UploadResponds(reply) ==
    /\ pc = "upload"
    /\ inflight # <<>>
    /\ inflight' = Tail(inflight)
    /\ clock' = clock + 1
    /\ isBusy' = FALSE
    /\ IF reply.kind = "ok"
       THEN /\ localStorage' = uploadedEntries(reply.questions, reply.sector, clock',
                                                Head(inflight).file.name)
            /\ questions' = reply.questions
            /\ ctxSector' = IF Falsy(reply.sector) THEN S_General ELSE reply.sector.s
            /\ selectedSector' = <<>>
            /\ UNCHANGED error
       ELSE /\ error' = messageOf(reply)
            /\ UNCHANGED <<localStorage, questions, ctxSector, selectedSector>>
    /\ UNCHANGED <<sessionStorage, file>>
    /\ UNCHANGED <<rows, activeSectors, pages, sectorArg, cells, pc>>
    /\ UNCHANGED <<selectedSectors, pageIdx, scoresByKey, request>>
    /\ UNCHANGED <<normVars, canonVars, vizVars, entryVars>>

\* reset() of the context, from handleReset of the visualization page
Reset ==
    /\ pc = "upload"
    /\ sessionStorage' = [k \in ScorecardKeys |-> JNull]
    /\ ctxSector' = S_Textiles
    /\ selectedSector' = S_Textiles
    /\ file' = JNull
    /\ questions' = questionsAfterReset(questions)
    /\ UNCHANGED <<localStorage, isBusy, error, inflight, clock>>
    /\ UNCHANGED <<rows, activeSectors, pages, sectorArg, cells, pc>>
    /\ UNCHANGED <<selectedSectors, pageIdx, scoresByKey, request>>
    /\ UNCHANGED <<normVars, canonVars, vizVars, entryVars>>

\* clearAll() of the context, from handleClearCurrentUpload, whose button is
\* disabled while an upload is busy
ClearAll ==
    /\ pc = "upload"
    /\ ~isBusy
    /\ sessionStorage' = [k \in ScorecardKeys |-> JNull]
    /\ localStorage' = [k \in UploadKeys |-> JNull]
    /\ questions' = <<>>
    /\ ctxSector' = S_Textiles
    /\ selectedSector' = S_Textiles
    /\ file' = JNull
    /\ UNCHANGED <<isBusy, error, inflight, clock>>
    /\ UNCHANGED <<rows, activeSectors, pages, sectorArg, cells, pc>>
    /\ UNCHANGED <<selectedSectors, pageIdx, scoresByKey, request>>
    /\ UNCHANGED <<normVars, canonVars, vizVars, entryVars>>

NextUpload ==
    \/ \E f \in UploadFiles \cup {JNull} : SelectFile(f)
    \/ ClickUpload
    \/ \E reply \in UploadReplies : UploadResponds(reply)
    \/ Reset
    \/ ClearAll

SpecUpload == InitUpload /\ [][NextUpload]_vars

\* the storage has none of the keys
Cleared(storage) == \A k \in DOMAIN storage : storage[k] = JNull

\* C25: reset() removes the scorecard keys from sessionStorage and resets
\* sector, selectedSector and file, and leaves the questions of the context
\* and the four upload keys of localStorage as they were; clearAll() does
\* the same and also removes the four keys and empties the questions.
C25_ResetKeepsUpload ==
    [][/\ Reset =>
            /\ Cleared(sessionStorage')
            /\ ctxSector' = S_Textiles
            /\ selectedSector' = S_Textiles
            /\ file' = JNull
            /\ questions' = questions
            /\ localStorage' = localStorage
       /\ ClearAll =>
            /\ Cleared(sessionStorage')
            /\ ctxSector' = S_Textiles
            /\ selectedSector' = S_Textiles
            /\ file' = JNull
            /\ questions' = <<>>
            /\ Cleared(localStorage')]_vars

\* an uploaded questionnaire that a reset has left in place
C25_Witness ==
    /\ questions # <<>>
    /\ ~Cleared(localStorage)
    /\ localStorage["uploadedQuestions"] = JArray(questions)
    /\ Cleared(sessionStorage)
    /\ selectedSector = S_Textiles
    /\ ctxSector = S_Textiles
    /\ file = JNull

\* C26: a successful upload puts its own questions, sector, time and file
\* name under the four localStorage keys and its questions and sector in
\* the context, so nothing of the previous upload remains; a failed upload
\* leaves the four keys and the questions and sector of the context as
\* they were and sets an error message.
C26_UploadReplacesOrKeeps ==
    [][\A reply \in UploadReplies :
          UploadResponds(reply) =>
            IF reply.kind = "ok"
            THEN /\ localStorage'["uploadedQuestions"] = JArray(reply.questions)
                 /\ localStorage'["uploadedSector"] \in {reply.sector, JStr(S_General)}
                 /\ localStorage'["uploadedSector"] = JStr(ctxSector')
                 /\ localStorage'["uploadedTimestamp"] = JNum(clock')
                 /\ localStorage'["uploadedTimestamp"] # localStorage["uploadedTimestamp"]
                 /\ localStorage'["uploadedFilename"] = Head(inflight).file.name
                 /\ questions' = reply.questions
                 /\ ~Falsy(reply.sector) => ctxSector' = reply.sector.s
            ELSE /\ localStorage' = localStorage
                 /\ questions' = questions
                 /\ ctxSector' = ctxSector
                 /\ error' # JNull]_vars

\* a second upload has replaced the first one
C26_Witness ==
    /\ clock = 2
    /\ localStorage["uploadedTimestamp"] = JNum(2)
    /\ localStorage["uploadedQuestions"] = JArray(questions)
    /\ questions # <<>>

\* C30: at most one upload request is in flight, the busy flag is set
\* exactly while one is, and it is false again after every answer.
C30_OneUploadAtATime ==
    /\ Len(inflight) <= 1
    /\ isBusy <=> inflight # <<>>

\* two upload attempts are over, one of them failed, and the page is idle
C30_Witness ==
    /\ clock = MaxUploads
    /\ error # JNull
    /\ ~isBusy
    /\ inflight = <<>>
    /\ file # JNull

====
